---------------------------- MODULE Spec2Model ----------------------------
(***************************************************************************)
(* chat-to-nextcloud: the supervisor (main.py), the file processor         *)
(* (src/file_processor.py), the path resolver (src/path_resolver.py) and   *)
(* the adapters' buffers and lifecycle (src/adapters/*.py).                *)
(*                                                                         *)
(* Strings are sequences of one-character strings, so that sanitising,     *)
(* splitting and joining are computed character by character.              *)
(***************************************************************************)
EXTENDS Integers, Sequences, FiniteSets, TLC

(***************************************************************************)
(* Bounds of the model.                                                    *)
(***************************************************************************)
\* Total number of file messages the hooks enqueue in one run.
MaxEvents == 2

\* sync calls the Matrix maintenance loop makes in a run
MaxSyncs == 2

\* messages one adapter's hooks enqueue in a run of the adapter's life
MaxReceived == 1

\* longest string handed to sanitize_path_component
MaxLen == 3

\* inbound messages handed to one adapter's hook
MaxHooked == 2

\* existence checks followed in one call of ensure_directory
MaxChecks == 5

\* messages a backend delivers to one adapter's buffer
MaxPut == 4

(***************************************************************************)
(* String helpers (Python str semantics).                                  *)
(***************************************************************************)
\* s[i..] for a 1-based i
Drop(s, n) == SubSeq(s, n + 1, Len(s))

Take(s, n) == SubSeq(s, 1, n)

\* s.startswith(p)
StartsWith(s, p) == Len(p) <= Len(s) /\ Take(s, Len(p)) = p

\* c in s
Contains(s, c) == \E i \in 1..Len(s) : s[i] = c

\* str.replace(old, new): leftmost non-overlapping occurrences, one pass
RECURSIVE Replace(_, _, _)
Replace(s, old, new) ==
    IF s = <<>> THEN <<>>
    ELSE IF StartsWith(s, old) THEN new \o Replace(Drop(s, Len(old)), old, new)
    ELSE <<Head(s)>> \o Replace(Tail(s), old, new)

\* str.split("/") : the pieces between separators, empty pieces included
RECURSIVE SplitOn(_, _)
SplitOn(s, sep) ==
    IF ~Contains(s, sep) THEN <<s>>
    ELSE LET i == CHOOSE k \in 1..Len(s) : s[k] = sep /\ \A j \in 1..(k - 1) : s[j] # sep
         IN  <<Take(s, i - 1)>> \o SplitOn(Drop(s, i), sep)

\* sep.join(parts)
RECURSIVE JoinWith(_, _)
JoinWith(parts, sep) ==
    IF parts = <<>> THEN <<>>
    ELSE IF Len(parts) = 1 THEN parts[1]
    ELSE parts[1] \o <<sep>> \o JoinWith(Tail(parts), sep)

\* index of the last occurrence of c in s (0 when absent)
LastIndex(s, c) ==
    IF Contains(s, c) THEN CHOOSE k \in 1..Len(s) : s[k] = c /\ \A j \in (k + 1)..Len(s) : s[j] # c
    ELSE 0

DigitChar == <<"0", "1", "2", "3", "4", "5", "6", "7", "8", "9">>

\* strftime zero padding of a field to the given width
RECURSIVE Pad(_, _)
Pad(n, width) ==
    IF width = 0 THEN <<>> ELSE Pad(n \div 10, width - 1) \o <<DigitChar[(n % 10) + 1]>>

(***************************************************************************)
(* Path resolver (src/path_resolver.py).                                   *)
(***************************************************************************)
\* the character class [<>:"/\|?*]
IllegalChars == {"<", ">", ":", "\"", "/", "\\", "|", "?", "*"}

StripChars == {".", " "}

\* re.sub(r'[<>:"/\\|?*]', "_", name)
SubIllegal(s) == [i \in 1..Len(s) |-> IF s[i] \in IllegalChars THEN "_" ELSE s[i]]

\* str.strip(". ")
RECURSIVE LStrip(_)
LStrip(s) == IF s # <<>> /\ Head(s) \in StripChars THEN LStrip(Tail(s)) ELSE s

RECURSIVE RStrip(_)
RStrip(s) ==
    IF s # <<>> /\ s[Len(s)] \in StripChars THEN RStrip(Take(s, Len(s) - 1)) ELSE s

Strip(s) == RStrip(LStrip(s))

\* re.sub(r"_+", "_", s)
RECURSIVE CollapseUnderscores(_)
CollapseUnderscores(s) ==
    IF Len(s) < 2 THEN s
    ELSE IF s[1] = "_" /\ s[2] = "_" THEN CollapseUnderscores(Tail(s))
    ELSE <<s[1]>> \o CollapseUnderscores(Tail(s))

Unknown == <<"u", "n", "k", "n", "o", "w", "n">>

\* (mutant) runs of "_" are collapsed before the illegal characters are replaced
sanitize_collapse_first(name) ==
    LET sanitized == Strip(SubIllegal(CollapseUnderscores(name)))
    IN  IF sanitized = <<>> THEN Unknown ELSE sanitized

\* (mutant) the result is returned as it is, also when it is empty
sanitize_no_fallback(name) == CollapseUnderscores(Strip(SubIllegal(name)))

sanitize_path_component(name) ==
    LET sanitized == CollapseUnderscores(Strip(SubIllegal(name)))
    IN  IF sanitized = <<>> THEN Unknown ELSE sanitized

\* FileMetadata(platform, room, sender, filename, timestamp)
FileMetadata(platform, room, sender, filename, timestamp) ==
    [platform |-> platform, room |-> room, sender |-> sender,
     filename |-> filename, timestamp |-> timestamp]

\* filename.rsplit(".", 1): <<base, ext>>, ext empty when there is no dot
SplitExt(filename) ==
    LET k == LastIndex(filename, ".")
    IN  IF k = 0 THEN <<filename, <<>>>>
        ELSE <<Take(filename, k - 1), Drop(filename, k)>>

\* the variables dict, in insertion order: <<key, value>> pairs
Variables(metadata) ==
    LET ts == metadata.timestamp
        se == SplitExt(metadata.filename)
    IN  << << <<"p", "l", "a", "t", "f", "o", "r", "m">>, sanitize_path_component(metadata.platform) >>,
           << <<"r", "o", "o", "m">>, sanitize_path_component(metadata.room) >>,
           << <<"s", "e", "n", "d", "e", "r">>, sanitize_path_component(metadata.sender) >>,
           << <<"f", "i", "l", "e", "n", "a", "m", "e">>, sanitize_path_component(metadata.filename) >>,
           << <<"f", "i", "l", "e", "n", "a", "m", "e", "_", "b", "a", "s", "e">>, sanitize_path_component(se[1]) >>,
           << <<"e", "x", "t">>, se[2] >>,
           << <<"d", "a", "t", "e">>, Pad(ts.year, 4) \o <<"-">> \o Pad(ts.month, 2) \o <<"-">> \o Pad(ts.day, 2) >>,
           << <<"y", "e", "a", "r">>, Pad(ts.year, 4) >>,
           << <<"m", "o", "n", "t", "h">>, Pad(ts.month, 2) >>,
           << <<"d", "a", "y">>, Pad(ts.day, 2) >>,
           << <<"h", "o", "u", "r">>, Pad(ts.hour, 2) >>,
           << <<"m", "i", "n", "u", "t", "e">>, Pad(ts.minute, 2) >> >>

\* for key, value in variables.items(): result = result.replace("{key}", value)
RECURSIVE ReplaceAll(_, _)
ReplaceAll(result, vars) ==
    IF vars = <<>> THEN result
    ELSE ReplaceAll(Replace(result, <<"{">> \o vars[1][1] \o <<"}">>, vars[1][2]), Tail(vars))

resolve_path(template, metadata) == ReplaceAll(template, Variables(metadata))

(***************************************************************************)
(* Paths (pathlib.PurePosixPath, and the file system's view of a path).    *)
(* A path is [abs |-> BOOLEAN, parts |-> sequence of components].          *)
(***************************************************************************)
\* the components PurePosixPath keeps: empty and "." pieces are dropped
RECURSIVE KeepParts(_)
KeepParts(pieces) ==
    IF pieces = <<>> THEN <<>>
    ELSE IF pieces[1] = <<>> \/ pieces[1] = <<".">> THEN KeepParts(Tail(pieces))
    ELSE <<pieces[1]>> \o KeepParts(Tail(pieces))

\* PurePosixPath(s)
PosixPath(s) == [abs |-> StartsWith(s, <<"/">>), parts |-> KeepParts(SplitOn(s, "/"))]

\* PurePosixPath.__truediv__: an absolute right operand replaces the left one
PathJoin(p, q) == IF q.abs THEN q ELSE [abs |-> p.abs, parts |-> p.parts \o q.parts]

\* str(path)
PathStr(p) ==
    IF p.parts = <<>> THEN (IF p.abs THEN <<"/">> ELSE <<".">>)
    ELSE (IF p.abs THEN <<"/">> ELSE <<>>) \o JoinWith(p.parts, "/")

\* the directory entry an absolute path names once the kernel has walked
\* its ".." components
RECURSIVE WalkParts(_, _)
WalkParts(done, rest) ==
    IF rest = <<>> THEN done
    ELSE IF rest[1] = <<".", ".">>
         THEN WalkParts(IF done = <<>> THEN <<>> ELSE Take(done, Len(done) - 1), Tail(rest))
         ELSE WalkParts(Append(done, rest[1]), Tail(rest))

RealPath(p) == WalkParts(<<>>, p.parts)

\* parts a is a (non-strict) prefix of parts b
IsPrefix(a, b) == Len(a) <= Len(b) /\ Take(b, Len(a)) = a


(***************************************************************************)
(* Configuration and inputs.                                               *)
(***************************************************************************)
\* main() builds at most a MatrixAdapter and a TelegramAdapter, in this order
Adapters == {"matrix", "telegram"}

\* BaseAdapter.platform_name of each adapter class
platform_name(a) ==
    IF a = "matrix" THEN <<"m", "a", "t", "r", "i", "x">>
    ELSE <<"t", "e", "l", "e", "g", "r", "a", "m">>

\* NextcloudConfig.base_path (its default)
base_path == <<"/", "C", "h", "a", "t", "U", "p", "l", "o", "a", "d", "s">>

\* Config.path_template: the default, and one that uses the date and split fields
DefaultTemplate ==
    <<"{", "p", "l", "a", "t", "f", "o", "r", "m", "}", "/", "{", "r", "o", "o", "m", "}", "/", "{", "f", "i", "l", "e", "n", "a", "m", "e", "}">>

Templates ==
    { DefaultTemplate,
      <<"{", "y", "e", "a", "r", "}", "/", "{", "m", "o", "n", "t", "h", "}", "/", "{", "s", "e", "n", "d", "e", "r", "}", "_", "{", "f", "i", "l", "e", "n", "a", "m", "e", "_", "b", "a", "s", "e", "}", ".", "{", "e", "x", "t", "}">> }

\* What a chat message supplies to the hooks: the attachment's name, the
\* room and the sender as displayed, their identifiers, and the server time.
Messages ==
    { [filename |-> <<"a", ".", "j", "p", "g">>,
       room_name |-> <<"M", "y", " ", "R", "o", "o", "m">>, room_id |-> <<"!", "r", "1">>,
       sender_name |-> <<"M", "o", "m">>, sender_id |-> <<"@", "m">>,
       timestamp |-> [year |-> 2024, month |-> 7, day |-> 4, hour |-> 14, minute |-> 30]],
      [filename |-> <<"/", "t", "m", "p", "/", "x">>,
       room_name |-> <<"x", "/", "y">>, room_id |-> <<"!", "r", "2">>,
       sender_name |-> <<"b">>, sender_id |-> <<"@", "b">>,
       timestamp |-> [year |-> 2025, month |-> 12, day |-> 31, hour |-> 0, minute |-> 5]] }

(***************************************************************************)
(* State.                                                                  *)
(***************************************************************************)
VARIABLES
    path_template,  \* FileProcessor.path_template
    pc,             \* per adapter: where its run_adapter task is suspended
    cancelReq,      \* per adapter: task.cancel() was called, CancelledError not yet raised
    running,        \* per adapter: self._running
    file_queue,     \* per adapter: self._file_queue
    cur,            \* per adapter: the frame of the process_file call in flight
    stop_event,     \* main's asyncio.Event
    mainPc,         \* where main() is
    made,           \* per adapter: number of FileMessage objects its hooks created
    fs,             \* local files on disk (resolved paths)
    calls,          \* per adapter: download_file / upload_file calls, in order
    results,        \* per adapter: what each process_file call returned
    history,        \* what happened, for stating the properties
    ad,             \* one adapter object and the run_adapter task that drives it
    call            \* the activation of one function or hook, followed step by step

loopVars == <<path_template, pc, cancelReq, running, file_queue, cur, stop_event, mainPc,
              made, fs, calls, results, history>>

vars == <<loopVars, ad, call>>

\* no function is being followed
NoCall == [fn |-> "none"]

\* the value None, and Some(v), for optional values
None == <<>>

Some(v) == <<v>>

\* tempfile.TemporaryDirectory(): a fresh directory under /tmp, named here
\* after the message it is made for (adapter initial and number)
TempDir(id) ==
    [abs |-> TRUE, parts |-> << <<"t", "m", "p">>, <<Head(platform_name(id[1]))>> \o Pad(id[2], 1) >>]

\* number of messages created so far
RECURSIVE SumOver(_, _)
SumOver(f, S) ==
    IF S = {} THEN 0
    ELSE LET x == CHOOSE y \in S : TRUE IN f[x] + SumOver(f, S \ {x})

Created == SumOver(made, Adapters)

\* the event loop runs one task step at a time: a synchronous call
\* (upload_file) keeps every other task, callback and signal handler waiting
LoopFree == \A a \in Adapters : pc[a] # "upload"

\* the adapter classes of src/adapters
Kinds == {"matrix", "telegram", "signal"}

\* an adapter object after __init__, its run_adapter task created and not yet
\* run, main() waiting on stop_event
NewAdapter(kind) ==
    [kind |-> kind,
     pc |-> "created",        \* where the run_adapter task is suspended
     cancel |-> FALSE,        \* task.cancel() called, CancelledError not yet raised
     running |-> FALSE,       \* self._running
     queued |-> 0,            \* self._file_queue.qsize()
     received |-> 0,          \* messages the hooks have put in the queue so far
     gen |-> "none",          \* the listen() generator: none, waiting, yielded, closing, abandoned, closed
     task |-> "none",         \* Matrix sync_task / Signal _bot_task
     app |-> "none",          \* Telegram self.application and how far it was started
     callbacks |-> 0,         \* Matrix: event callbacks registered on the client
     syncs |-> 0,             \* Matrix: client.sync calls made by connect()
     attempts |-> 0,          \* Matrix: client.sync calls made by _sync_forever
     fails |-> 0,             \* Matrix: of these, how many failed
     cause |-> "none",        \* what went wrong in connect()
     raised |-> "none",       \* what connect() raised: auth (MatrixAuthError) or other
     connected |-> FALSE,     \* connect() returned
     disc |-> "none",         \* disconnect(): none, entered, returned, raised, interrupted
     stop |-> FALSE,          \* stop_event
     main |-> "wait"]         \* where main() is

LoopInit ==
    /\ path_template \in Templates
    /\ pc = [a \in Adapters |-> "connect"]
    /\ cancelReq = [a \in Adapters |-> FALSE]
    /\ running = [a \in Adapters |-> FALSE]
    /\ file_queue = [a \in Adapters |-> <<>>]
    /\ cur = [a \in Adapters |-> None]
    /\ stop_event = FALSE
    /\ mainPc = "wait"
    /\ made = [a \in Adapters |-> 0]
    /\ fs = {}
    /\ calls = [a \in Adapters |-> <<>>]
    /\ results = [a \in Adapters |-> <<>>]
    /\ history = [connect |-> [a \in Adapters |-> "pending"],
                  disconnects |-> [a \in Adapters |-> 0],
                  owed |-> {}]

Init ==
    /\ LoopInit
    /\ ad = NewAdapter("matrix")
    /\ call = NoCall

(***************************************************************************)
(* Adapter hooks.                                                          *)
(***************************************************************************)
\* FileMessage(...) as the hooks build it (the n-th one created)
FileMessage(a, n, m) ==
    [id |-> <<a, n>>, platform |-> platform_name(a),
     room_id |-> m.room_id, room_name |-> m.room_name,
     sender_id |-> m.sender_id, sender_name |-> m.sender_name,
     filename |-> m.filename, timestamp |-> m.timestamp]

\* _on_message / _on_file_message: a qualifying message is put in the buffer.
\* The backend delivers messages from the moment connect() drives the session.
on_message(a, m) ==
    /\ LoopFree
    /\ pc[a] \in {"connect", "listen", "download"}
    /\ Created < MaxEvents
    /\ made' = [made EXCEPT ![a] = @ + 1]
    /\ file_queue' = [file_queue EXCEPT ![a] = Append(@, FileMessage(a, made[a] + 1, m))]
    /\ UNCHANGED <<call, ad, path_template, pc, cancelReq, running, cur, stop_event, mainPc,
                   fs, calls, results, history>>

(***************************************************************************)
(* run_adapter (main.py).                                                  *)
(***************************************************************************)
\* finally: await adapter.disconnect().  disconnect() first clears _running;
\* it then either suspends on its backend or returns without suspending.
EnterDisconnect(a, h, suspends) ==
    /\ running' = [running EXCEPT ![a] = FALSE]
    /\ pc' = [pc EXCEPT ![a] = IF suspends THEN "disconnect" ELSE "done"]
    /\ history' = [h EXCEPT !.disconnects[a] = @ + 1]

\* ids of the messages waiting in the buffers of the other, running adapters
QueuedElsewhere(a) ==
    UNION { {file_queue[b][i].id : i \in 1..Len(file_queue[b])} :
            b \in {x \in Adapters \ {a} : running[x]} }

\* connect() returned; listen() starts: self._running = True, then it waits
\* on the buffer
RunAdapterConnected(a) ==
    /\ LoopFree
    /\ pc[a] = "connect"
    /\ ~cancelReq[a]
    /\ pc' = [pc EXCEPT ![a] = "listen"]
    /\ running' = [running EXCEPT ![a] = TRUE]
    /\ history' = [history EXCEPT !.connect[a] = "ok"]
    /\ UNCHANGED <<call, ad, path_template, cancelReq, file_queue, cur, stop_event, mainPc,
                   made, fs, calls, results>>

\* (mutant) the authentication error is logged but the stop signal is not set
RunAdapterAuthErrorNoStop(a) ==
    /\ LoopFree
    /\ a = "matrix"
    /\ pc[a] = "connect"
    /\ ~cancelReq[a]
    /\ \E suspends \in BOOLEAN :
         EnterDisconnect(a, [history EXCEPT !.connect[a] = "auth",
                                            !.owed = @ \cup QueuedElsewhere(a)], suspends)
    /\ UNCHANGED <<call, ad, path_template, cancelReq, file_queue, cur, stop_event, mainPc,
                   made, fs, calls, results>>

\* connect() raised MatrixAuthError (only the Matrix adapter raises it):
\* except MatrixAuthError: stop_event.set(); finally: disconnect()
RunAdapterAuthError(a) ==
    /\ LoopFree
    /\ a = "matrix"
    /\ pc[a] = "connect"
    /\ ~cancelReq[a]
    /\ stop_event' = TRUE
    /\ \E suspends \in BOOLEAN :
         EnterDisconnect(a, [history EXCEPT !.connect[a] = "auth",
                                            !.owed = @ \cup QueuedElsewhere(a)], suspends)
    /\ UNCHANGED <<call, ad, path_template, cancelReq, file_queue, cur, mainPc,
                   made, fs, calls, results>>

\* (mutant) the exception of connect() is swallowed and the loop goes on to
\* listen()
RunAdapterErrorListens(a) ==
    /\ LoopFree
    /\ pc[a] = "connect"
    /\ ~cancelReq[a]
    /\ pc' = [pc EXCEPT ![a] = "listen"]
    /\ running' = [running EXCEPT ![a] = TRUE]
    /\ history' = [history EXCEPT !.connect[a] = "error"]
    /\ UNCHANGED <<call, ad, path_template, cancelReq, file_queue, cur, stop_event, mainPc,
                   made, fs, calls, results>>

\* connect() raised any other exception:
\* except Exception: stop_event.set(); finally: disconnect()
RunAdapterError(a) ==
    /\ LoopFree
    /\ pc[a] = "connect"
    /\ ~cancelReq[a]
    /\ stop_event' = TRUE
    /\ \E suspends \in BOOLEAN :
         EnterDisconnect(a, [history EXCEPT !.connect[a] = "error",
                                            !.owed = @ \cup QueuedElsewhere(a)], suspends)
    /\ UNCHANGED <<call, ad, path_template, cancelReq, file_queue, cur, mainPc,
                   made, fs, calls, results>>

\* disconnect() returned: the task is finished
DisconnectDone(a) ==
    /\ LoopFree
    /\ pc[a] = "disconnect"
    /\ ~cancelReq[a]
    /\ pc' = [pc EXCEPT ![a] = "done"]
    /\ UNCHANGED <<call, ad, path_template, cancelReq, running, file_queue, cur, stop_event, mainPc,
                   made, fs, calls, results, history>>

(***************************************************************************)
(* FileProcessor.process_file (src/file_processor.py).                     *)
(***************************************************************************)
\* _full_path of an uploader configured with base
FullPath(base, relative_path) == PathStr(PathJoin(PosixPath(base), PosixPath(relative_path)))

\* NextcloudUploader._full_path
full_path(relative_path) == FullPath(base_path, relative_path)

\* what NextcloudUploader.upload_file returns when it does not raise
upload_file(remote_path) == full_path(remote_path)

\* (mutant) the room identifier is taken where the room name belongs
MetadataOfRoomId(file_message) ==
    FileMetadata(file_message.platform, file_message.room_id, file_message.sender_name,
                 file_message.filename, file_message.timestamp)

\* the metadata process_file builds from the message
MetadataOf(file_message) ==
    FileMetadata(file_message.platform, file_message.room_name, file_message.sender_name,
                 file_message.filename, file_message.timestamp)

\* local_path = Path(temp_dir) / file_message.filename
LocalPath(temp_dir, file_message) == PathJoin(temp_dir, PosixPath(file_message.filename))

\* leaving "with tempfile.TemporaryDirectory()": the directory and all it holds go
Cleanup(files, temp_dir) == {f \in files : ~IsPrefix(temp_dir.parts, f)}

\* open(destination, "wb") succeeds unless destination names a directory
Writable(frame) == ~IsPrefix(RealPath(frame.local_path), frame.temp_dir.parts)

\* download_file's write to its destination
WriteFile(files, frame) == files \cup {RealPath(frame.local_path)}

\* listen() can hand the loop its next message: the event loop is free, the
\* task waits on the buffer with no cancellation pending, and the buffer is
\* not empty
CanTake(a) ==
    /\ LoopFree
    /\ pc[a] = "listen"
    /\ ~cancelReq[a]
    /\ running[a]
    /\ file_queue[a] # <<>>

\* (mutant) one buffer shared by the adapters: the loop of a takes the oldest
\* message of any adapter
ProcessFileStartAnyBuffer(a) ==
    /\ LoopFree
    /\ pc[a] = "listen"
    /\ ~cancelReq[a]
    /\ running[a]
    /\ \E b \in Adapters :
         /\ file_queue[b] # <<>>
         /\ LET file_message == Head(file_queue[b])
                remote_path == resolve_path(path_template, MetadataOf(file_message))
                temp_dir == TempDir(file_message.id)
                local_path == LocalPath(temp_dir, file_message)
            IN  /\ file_queue' = [file_queue EXCEPT ![b] = Tail(@)]
                /\ cur' = [cur EXCEPT ![a] = Some([file_message |-> file_message,
                                                   remote_path |-> remote_path,
                                                   temp_dir |-> temp_dir,
                                                   local_path |-> local_path])]
                /\ calls' = [calls EXCEPT ![a] = Append(@, [op |-> "download_file",
                                                            file_message |-> file_message,
                                                            local_path |-> local_path,
                                                            remote_path |-> None])]
    /\ pc' = [pc EXCEPT ![a] = "download"]
    /\ UNCHANGED <<call, ad, path_template, cancelReq, running, stop_event, mainPc, made, fs, results,
                   history>>

\* (mutant) the buffer is read from its newest end
ProcessFileStartLifo(a) ==
    /\ CanTake(a)
    /\ LET file_message == file_queue[a][Len(file_queue[a])]
           remote_path == resolve_path(path_template, MetadataOf(file_message))
           temp_dir == TempDir(file_message.id)
           local_path == LocalPath(temp_dir, file_message)
       IN  /\ file_queue' = [file_queue EXCEPT ![a] = SubSeq(@, 1, Len(@) - 1)]
           /\ cur' = [cur EXCEPT ![a] = Some([file_message |-> file_message,
                                              remote_path |-> remote_path,
                                              temp_dir |-> temp_dir,
                                              local_path |-> local_path])]
           /\ calls' = [calls EXCEPT ![a] = Append(@, [op |-> "download_file",
                                                       file_message |-> file_message,
                                                       local_path |-> local_path,
                                                       remote_path |-> None])]
    /\ pc' = [pc EXCEPT ![a] = "download"]
    /\ UNCHANGED <<call, ad, path_template, cancelReq, running, stop_event, mainPc, made, fs, results,
                   history>>

\* "async for file_message in adapter.listen()" yields the head of the buffer and
\* process_file runs up to "await adapter.download_file(...)"
ProcessFileStart(a) ==
    /\ CanTake(a)
    /\ LET file_message == Head(file_queue[a])
           remote_path == resolve_path(path_template, MetadataOf(file_message))
           temp_dir == TempDir(file_message.id)
           local_path == LocalPath(temp_dir, file_message)
       IN  /\ file_queue' = [file_queue EXCEPT ![a] = Tail(@)]
           /\ cur' = [cur EXCEPT ![a] = Some([file_message |-> file_message,
                                              remote_path |-> remote_path,
                                              temp_dir |-> temp_dir,
                                              local_path |-> local_path])]
           /\ calls' = [calls EXCEPT ![a] = Append(@, [op |-> "download_file",
                                                       file_message |-> file_message,
                                                       local_path |-> local_path,
                                                       remote_path |-> None])]
    /\ pc' = [pc EXCEPT ![a] = "download"]
    /\ UNCHANGED <<call, ad, path_template, cancelReq, running, stop_event, mainPc, made, fs, results,
                   history>>

\* (mutant) upload_file called after the with block: the temporary directory
\* is removed before the upload
ProcessFileDownloadedCleanupFirst(a) ==
    /\ LoopFree
    /\ pc[a] = "download"
    /\ ~cancelReq[a]
    /\ LET frame == cur[a][1]
       IN  /\ Writable(frame)
           /\ fs' = Cleanup(WriteFile(fs, frame), frame.temp_dir)
           /\ calls' = [calls EXCEPT ![a] = Append(@, [op |-> "upload_file",
                                                       file_message |-> frame.file_message,
                                                       local_path |-> frame.local_path,
                                                       remote_path |-> Some(frame.remote_path)])]
    /\ pc' = [pc EXCEPT ![a] = "upload"]
    /\ UNCHANGED <<call, ad, path_template, cancelReq, running, file_queue, cur, stop_event, mainPc,
                   made, results, history>>

\* download_file returned; process_file calls uploader.upload_file(local_path,
\* remote_path), a synchronous call
ProcessFileDownloaded(a) ==
    /\ LoopFree
    /\ pc[a] = "download"
    /\ ~cancelReq[a]
    /\ LET frame == cur[a][1]
       IN  /\ Writable(frame)
           /\ fs' = WriteFile(fs, frame)
           /\ calls' = [calls EXCEPT ![a] = Append(@, [op |-> "upload_file",
                                                       file_message |-> frame.file_message,
                                                       local_path |-> frame.local_path,
                                                       remote_path |-> Some(frame.remote_path)])]
    /\ pc' = [pc EXCEPT ![a] = "upload"]
    /\ UNCHANGED <<call, ad, path_template, cancelReq, running, file_queue, cur, stop_event, mainPc,
                   made, results, history>>

\* (mutant) process_file without its except clause: the exception of
\* download_file reaches run_adapter's "except Exception"
ProcessFileDownloadFailedReraise(a) ==
    /\ LoopFree
    /\ pc[a] = "download"
    /\ ~cancelReq[a]
    /\ fs' = Cleanup(fs, cur[a][1].temp_dir)
    /\ stop_event' = TRUE
    /\ \E suspends \in BOOLEAN : EnterDisconnect(a, history, suspends)
    /\ cur' = [cur EXCEPT ![a] = None]
    /\ UNCHANGED <<call, ad, path_template, cancelReq, file_queue, mainPc, made, calls, results>>

\* (mutant) the try block ends after download_file: its exception is logged
\* and upload_file is called all the same
ProcessFileDownloadFailedUploadAnyway(a) ==
    /\ LoopFree
    /\ pc[a] = "download"
    /\ ~cancelReq[a]
    /\ LET frame == cur[a][1]
       IN  /\ fs' = Cleanup(fs, frame.temp_dir)
           /\ calls' = [calls EXCEPT ![a] = Append(@, [op |-> "upload_file",
                                                       file_message |-> frame.file_message,
                                                       local_path |-> frame.local_path,
                                                       remote_path |-> Some(frame.remote_path)])]
           /\ results' = [results EXCEPT ![a] = Append(@, [id |-> frame.file_message.id,
                                                           fetch |-> "raised",
                                                           upload |-> "raised",
                                                           uploaded_path |-> None,
                                                           ret |-> None])]
    /\ cur' = [cur EXCEPT ![a] = None]
    /\ pc' = [pc EXCEPT ![a] = "listen"]
    /\ UNCHANGED <<call, ad, path_template, cancelReq, running, file_queue, stop_event, mainPc,
                   made, history>>

\* download_file raised (before or after writing some of the file):
\* the with block is left, except Exception logs and returns None
ProcessFileDownloadFailed(a) ==
    /\ LoopFree
    /\ pc[a] = "download"
    /\ ~cancelReq[a]
    /\ LET frame == cur[a][1]
       IN  /\ \E wrote \in {w \in BOOLEAN : w => Writable(frame)} :
                fs' = Cleanup(IF wrote THEN WriteFile(fs, frame) ELSE fs, frame.temp_dir)
           /\ results' = [results EXCEPT ![a] = Append(@, [id |-> frame.file_message.id,
                                                           fetch |-> "raised",
                                                           upload |-> "not called",
                                                           uploaded_path |-> None,
                                                           ret |-> None])]
    /\ cur' = [cur EXCEPT ![a] = None]
    /\ pc' = [pc EXCEPT ![a] = "listen"]
    /\ UNCHANGED <<call, ad, path_template, cancelReq, running, file_queue, stop_event, mainPc,
                   made, calls, history>>

\* upload_file returned the full remote path: the with block is left and
\* process_file returns it
ProcessFileUploaded(a) ==
    /\ pc[a] = "upload"
    /\ LET frame == cur[a][1]
       IN  /\ fs' = Cleanup(fs, frame.temp_dir)
           /\ results' = [results EXCEPT ![a] = Append(@, [id |-> frame.file_message.id,
                                                           fetch |-> "ok",
                                                           upload |-> "ok",
                                                           uploaded_path |-> Some(upload_file(frame.remote_path)),
                                                           ret |-> Some(upload_file(frame.remote_path))])]
    /\ cur' = [cur EXCEPT ![a] = None]
    /\ pc' = [pc EXCEPT ![a] = "listen"]
    /\ UNCHANGED <<call, ad, path_template, cancelReq, running, file_queue, stop_event, mainPc,
                   made, calls, history>>

\* (mutant) process_file without its except clause: the exception of
\* upload_file reaches run_adapter's "except Exception"
ProcessFileUploadFailedReraise(a) ==
    /\ pc[a] = "upload"
    /\ fs' = Cleanup(fs, cur[a][1].temp_dir)
    /\ stop_event' = TRUE
    /\ \E suspends \in BOOLEAN : EnterDisconnect(a, history, suspends)
    /\ cur' = [cur EXCEPT ![a] = None]
    /\ UNCHANGED <<call, ad, path_template, cancelReq, file_queue, mainPc, made, calls, results>>

\* (mutant) a message whose upload failed is put back in the buffer
ProcessFileUploadFailedRequeue(a) ==
    /\ pc[a] = "upload"
    /\ LET frame == cur[a][1]
       IN  /\ fs' = Cleanup(fs, frame.temp_dir)
           /\ file_queue' = [file_queue EXCEPT ![a] = Append(@, frame.file_message)]
           /\ results' = [results EXCEPT ![a] = Append(@, [id |-> frame.file_message.id,
                                                           fetch |-> "ok",
                                                           upload |-> "raised",
                                                           uploaded_path |-> None,
                                                           ret |-> None])]
    /\ cur' = [cur EXCEPT ![a] = None]
    /\ pc' = [pc EXCEPT ![a] = "listen"]
    /\ UNCHANGED <<call, ad, path_template, cancelReq, running, stop_event, mainPc,
                   made, calls, history>>

\* upload_file raised: the with block is left, except Exception logs and
\* returns None
ProcessFileUploadFailed(a) ==
    /\ pc[a] = "upload"
    /\ LET frame == cur[a][1]
       IN  /\ fs' = Cleanup(fs, frame.temp_dir)
           /\ results' = [results EXCEPT ![a] = Append(@, [id |-> frame.file_message.id,
                                                           fetch |-> "ok",
                                                           upload |-> "raised",
                                                           uploaded_path |-> None,
                                                           ret |-> None])]
    /\ cur' = [cur EXCEPT ![a] = None]
    /\ pc' = [pc EXCEPT ![a] = "listen"]
    /\ UNCHANGED <<call, ad, path_template, cancelReq, running, file_queue, stop_event, mainPc,
                   made, calls, history>>

(***************************************************************************)
(* Cancellation: CancelledError is raised at the await where the task is   *)
(* suspended.  It is a BaseException: "except Exception" does not catch it.*)
(***************************************************************************)
\* in "await adapter.connect()": except CancelledError, then finally
CancelledInConnect(a) ==
    /\ LoopFree
    /\ cancelReq[a]
    /\ pc[a] = "connect"
    /\ cancelReq' = [cancelReq EXCEPT ![a] = FALSE]
    /\ \E suspends \in BOOLEAN :
         EnterDisconnect(a, [history EXCEPT !.connect[a] = "cancelled"], suspends)
    /\ UNCHANGED <<call, ad, path_template, file_queue, cur, stop_event, mainPc,
                   made, fs, calls, results>>

\* (mutant) disconnect() called in the "except Exception" branches instead of
\* in a finally block: a cancelled loop ends without it
CancelledInListenNoFinally(a) ==
    /\ LoopFree
    /\ cancelReq[a]
    /\ pc[a] = "listen"
    /\ cancelReq' = [cancelReq EXCEPT ![a] = FALSE]
    /\ pc' = [pc EXCEPT ![a] = "done"]
    /\ UNCHANGED <<call, ad, path_template, running, file_queue, cur, stop_event, mainPc,
                   made, fs, calls, results, history>>

\* in listen()'s wait on the buffer: except CancelledError, then finally
CancelledInListen(a) ==
    /\ LoopFree
    /\ cancelReq[a]
    /\ pc[a] = "listen"
    /\ cancelReq' = [cancelReq EXCEPT ![a] = FALSE]
    /\ \E suspends \in BOOLEAN : EnterDisconnect(a, history, suspends)
    /\ UNCHANGED <<call, ad, path_template, file_queue, cur, stop_event, mainPc,
                   made, fs, calls, results>>

\* in "await adapter.download_file(...)": the with block is left, process_file
\* does not return, run_adapter's except CancelledError, then finally
CancelledInDownload(a) ==
    /\ LoopFree
    /\ cancelReq[a]
    /\ pc[a] = "download"
    /\ cancelReq' = [cancelReq EXCEPT ![a] = FALSE]
    /\ LET frame == cur[a][1]
       IN  \E wrote \in {w \in BOOLEAN : w => Writable(frame)}, suspends \in BOOLEAN :
                /\ fs' = Cleanup(IF wrote THEN WriteFile(fs, frame) ELSE fs, frame.temp_dir)
                /\ EnterDisconnect(a, history, suspends)
    /\ cur' = [cur EXCEPT ![a] = None]
    /\ UNCHANGED <<call, ad, path_template, file_queue, stop_event, mainPc,
                   made, calls, results>>

\* in "await adapter.disconnect()" of the finally block: disconnect() is
\* abandoned where it waits and the task ends with CancelledError
CancelledInDisconnect(a) ==
    /\ LoopFree
    /\ cancelReq[a]
    /\ pc[a] = "disconnect"
    /\ cancelReq' = [cancelReq EXCEPT ![a] = FALSE]
    /\ pc' = [pc EXCEPT ![a] = "done"]
    /\ UNCHANGED <<call, ad, path_template, running, file_queue, cur, stop_event, mainPc,
                   made, fs, calls, results, history>>

(***************************************************************************)
(* main (main.py).                                                         *)
(***************************************************************************)
\* SIGINT / SIGTERM: stop_event.set()
signal_handler ==
    /\ LoopFree
    /\ mainPc # "done"
    /\ stop_event' = TRUE
    /\ UNCHANGED <<call, ad, path_template, pc, cancelReq, running, file_queue, cur, mainPc,
                   made, fs, calls, results, history>>

\* await stop_event.wait() returns; for task in tasks: task.cancel()
\* (cancel() of a finished task does nothing)
MainCancel ==
    /\ LoopFree
    /\ mainPc = "wait"
    /\ stop_event
    /\ cancelReq' = [a \in Adapters |-> pc[a] # "done"]
    /\ mainPc' = "gather"
    /\ UNCHANGED <<call, ad, path_template, pc, running, file_queue, cur, stop_event,
                   made, fs, calls, results, history>>

\* (mutant) the tasks are cancelled but not awaited
MainGatherNoWait ==
    /\ LoopFree
    /\ mainPc = "gather"
    /\ mainPc' = "done"
    /\ UNCHANGED <<call, ad, path_template, pc, cancelReq, running, file_queue, cur, stop_event,
                   made, fs, calls, results, history>>

\* await asyncio.gather(*tasks, return_exceptions=True) returns when every
\* task is finished; "Shutdown complete"
MainGather ==
    /\ LoopFree
    /\ mainPc = "gather"
    /\ \A a \in Adapters : pc[a] = "done"
    /\ mainPc' = "done"
    /\ UNCHANGED <<call, ad, path_template, pc, cancelReq, running, file_queue, cur, stop_event,
                   made, fs, calls, results, history>>

Next ==
    \/ \E a \in Adapters, m \in Messages : on_message(a, m)
    \/ \E a \in Adapters : RunAdapterConnected(a)
    \/ \E a \in Adapters : RunAdapterAuthError(a)
    \/ \E a \in Adapters : RunAdapterError(a)
    \/ \E a \in Adapters : ProcessFileStart(a)
    \/ \E a \in Adapters : ProcessFileDownloaded(a)
    \/ \E a \in Adapters : ProcessFileDownloadFailed(a)
    \/ \E a \in Adapters : ProcessFileUploaded(a)
    \/ \E a \in Adapters : ProcessFileUploadFailed(a)
    \/ \E a \in Adapters : CancelledInConnect(a)
    \/ \E a \in Adapters : CancelledInListen(a)
    \/ \E a \in Adapters : CancelledInDownload(a)
    \/ \E a \in Adapters : CancelledInDisconnect(a)
    \/ \E a \in Adapters : DisconnectDone(a)
    \/ signal_handler
    \/ MainCancel
    \/ MainGather

Spec == Init /\ [][Next]_vars

(***************************************************************************)
(* One adapter's life: connect(), listen(), the maintenance task and       *)
(* disconnect(), driven by run_adapter and main for a single adapter.      *)
(* process_file is reduced to its two calls.                               *)
(***************************************************************************)
\* adapter.disconnect() called on the adapter s: the states it can leave.
\* Matrix awaits client.close(), which may return without suspending.
\* Telegram calls nothing when application is None and otherwise awaits
\* updater.stop(), which raises RuntimeError unless the updater is polling.
\* Signal cancels _bot_task, if there is one, and awaits it.
Disconnect(s) ==
    LET off == [s EXCEPT !.running = FALSE]
        returns == [off EXCEPT !.pc = "done", !.disc = "returned"]
        waits == [off EXCEPT !.pc = "disconnect", !.disc = "entered"]
        raises == [off EXCEPT !.pc = "done", !.disc = "raised"]
    IN  CASE s.kind = "matrix" -> {waits, returns}
          [] s.kind = "telegram" ->
                IF s.app = "none" THEN {returns}
                ELSE IF s.app = "polling" THEN {waits}
                ELSE {raises}
          [] s.kind = "signal" ->
                IF s.task = "none" THEN {returns}
                ELSE {[waits EXCEPT !.task = "cancelling"]}

\* run_adapter when connect() raises: both except branches set stop_event,
\* then finally: await adapter.disconnect()
ConnectRaises(s, cause, exception) ==
    Disconnect([s EXCEPT !.cause = cause, !.raised = exception, !.stop = TRUE])

\* connect() returned; "async for ... in adapter.listen()" starts the
\* generator: self._running = True, (Matrix) sync_task created, then the
\* wait on the queue
ListenStart(s) ==
    [s EXCEPT !.connected = TRUE, !.running = TRUE, !.gen = "waiting", !.pc = "listen",
              !.task = IF s.kind = "matrix" THEN "created" ELSE @]

\* MatrixAdapter.connect up to "await self.client.whoami()"
connect_matrix ==
    /\ ad.kind = "matrix"
    /\ ad.pc = "created"
    /\ ad' = [ad EXCEPT !.pc = "whoami"]
    /\ UNCHANGED <<call, loopVars>>

\* (mutant) the callbacks are registered before the credentials are verified
connect_callbacks_first(outcome) ==
    /\ ad.pc = "whoami"
    /\ ~ad.cancel
    /\ CASE outcome = "ok" ->
              ad' = [ad EXCEPT !.callbacks = 5, !.syncs = 1, !.pc = "initial_sync"]
         [] outcome = "unreachable" ->
              ad' \in ConnectRaises([ad EXCEPT !.callbacks = 5], "unreachable", "auth")
         [] outcome = "whoami_error" ->
              ad' \in ConnectRaises([ad EXCEPT !.callbacks = 5], "invalid_token", "auth")
         [] outcome = "mismatch" ->
              ad' \in ConnectRaises([ad EXCEPT !.callbacks = 5], "mismatch", "auth")
    /\ UNCHANGED <<call, loopVars>>

\* whoami() returned or raised: _verify_credentials raises MatrixAuthError
\* when it raised, returned a WhoamiError, or returned another user id;
\* otherwise connect registers its callbacks and awaits the initial sync
verify_credentials(outcome) ==
    /\ ad.pc = "whoami"
    /\ ~ad.cancel
    /\ CASE outcome = "ok" ->
              ad' = [ad EXCEPT !.callbacks = 5, !.syncs = 1, !.pc = "initial_sync"]
         [] outcome = "unreachable" ->
              ad' \in ConnectRaises(ad, "unreachable", "auth")
         [] outcome = "whoami_error" ->
              ad' \in ConnectRaises(ad, "invalid_token", "auth")
         [] outcome = "mismatch" ->
              ad' \in ConnectRaises(ad, "mismatch", "auth")
    /\ UNCHANGED <<call, loopVars>>

\* the initial sync returned a response, returned a SyncError (MatrixAuthError
\* is raised) or raised
initial_sync(outcome) ==
    /\ ad.pc = "initial_sync"
    /\ ~ad.cancel
    /\ CASE outcome = "ok" -> ad' = ListenStart(ad)
         [] outcome = "sync_error" -> ad' \in ConnectRaises(ad, "sync_error", "auth")
         [] outcome = "raised" -> ad' \in ConnectRaises(ad, "sync_raised", "other")
    /\ UNCHANGED <<call, loopVars>>

\* TelegramAdapter.connect up to "await self.application.initialize()";
\* Application.builder().token(...).build() raises InvalidToken for an empty
\* token, and self.application is then still None
connect_telegram(built) ==
    /\ ad.kind = "telegram"
    /\ ad.pc = "created"
    /\ IF built THEN ad' = [ad EXCEPT !.app = "built", !.pc = "initialize"]
       ELSE ad' \in ConnectRaises(ad, "invalid_token", "other")
    /\ UNCHANGED <<call, loopVars>>

\* application.initialize() returned or raised (InvalidToken for a token the
\* server rejects, NetworkError when it cannot be reached)
telegram_initialize(outcome) ==
    /\ ad.pc = "initialize"
    /\ ~ad.cancel
    /\ IF outcome = "ok" THEN ad' = [ad EXCEPT !.app = "initialized", !.pc = "start"]
       ELSE ad' \in ConnectRaises(ad, outcome, "other")
    /\ UNCHANGED <<call, loopVars>>

\* application.start() returned or raised
telegram_start(outcome) ==
    /\ ad.pc = "start"
    /\ ~ad.cancel
    /\ IF outcome = "ok" THEN ad' = [ad EXCEPT !.app = "started", !.pc = "start_polling"]
       ELSE ad' \in ConnectRaises(ad, outcome, "other")
    /\ UNCHANGED <<call, loopVars>>

\* updater.start_polling() returned or raised (the updater is then not running)
telegram_start_polling(outcome) ==
    /\ ad.pc = "start_polling"
    /\ ~ad.cancel
    /\ IF outcome = "ok" THEN ad' = [ad EXCEPT !.app = "polling", !.pc = "get_me"]
       ELSE ad' \in ConnectRaises(ad, outcome, "other")
    /\ UNCHANGED <<call, loopVars>>

\* bot.get_me() returned (connect returns) or raised
telegram_get_me(outcome) ==
    /\ ad.pc = "get_me"
    /\ ~ad.cancel
    /\ IF outcome = "ok" THEN ad' = ListenStart(ad)
       ELSE ad' \in ConnectRaises(ad, outcome, "other")
    /\ UNCHANGED <<call, loopVars>>

\* SignalAdapter.connect has no await: SignalBot(...) is built (or raises),
\* the command registered, _bot_task created, and connect returns
connect_signal(built) ==
    /\ ad.kind = "signal"
    /\ ad.pc = "created"
    /\ IF built THEN ad' = ListenStart([ad EXCEPT !.task = "run"])
       ELSE ad' \in ConnectRaises(ad, "bot_error", "other")
    /\ UNCHANGED <<call, loopVars>>

\* the awaits inside connect()
ConnectAwaits == {"whoami", "initial_sync", "initialize", "start", "start_polling", "get_me"}

\* CancelledError at an await of connect(): except CancelledError, finally
connect_cancelled ==
    /\ ad.pc \in ConnectAwaits
    /\ ad.cancel
    /\ ad' \in Disconnect([ad EXCEPT !.cancel = FALSE, !.cause = "cancelled"])
    /\ UNCHANGED <<call, loopVars>>

\* disconnect() called on an adapter whose connect() was never called
disconnect_unconnected ==
    /\ ad.pc = "created"
    /\ ad' \in Disconnect([ad EXCEPT !.cause = "never connected"])
    /\ UNCHANGED <<call, loopVars>>

\* the backend delivers a file message to the hook, which enqueues it
\* (Matrix: during a sync; Telegram: while polling; Signal: while the bot runs)
Delivering(s) ==
    CASE s.kind = "matrix" -> s.callbacks = 5 /\ (s.pc = "initial_sync" \/ s.task = "sync")
      [] s.kind = "telegram" -> s.app = "polling"
      [] s.kind = "signal" -> s.task = "run"

on_file ==
    /\ ad.pc # "upload"
    /\ Delivering(ad)
    /\ ad.received < MaxReceived
    /\ ad' = [ad EXCEPT !.queued = @ + 1, !.received = @ + 1]
    /\ UNCHANGED <<call, loopVars>>

\* listen(): wait_for(queue.get(), timeout=1.0) timed out on an empty queue;
\* "continue", self._running is still True, and the wait starts again
listen_timeout ==
    /\ ad.pc = "listen"
    /\ ~ad.cancel
    /\ ad.queued = 0
    /\ ad' = ad
    /\ UNCHANGED <<call, loopVars>>

\* listen() yields a message; process_file awaits download_file
listen_yield ==
    /\ ad.pc = "listen"
    /\ ~ad.cancel
    /\ ad.queued > 0
    /\ ad' = [ad EXCEPT !.queued = @ - 1, !.gen = "yielded", !.pc = "download"]
    /\ UNCHANGED <<call, loopVars>>

\* download_file returned; upload_file is called (synchronously)
process_downloaded ==
    /\ ad.pc = "download"
    /\ ~ad.cancel
    /\ ad' = [ad EXCEPT !.pc = "upload"]
    /\ UNCHANGED <<call, loopVars>>

\* download_file raised; process_file returns None and listen() is resumed
process_download_failed ==
    /\ ad.pc = "download"
    /\ ~ad.cancel
    /\ ad' = [ad EXCEPT !.pc = "listen", !.gen = "waiting"]
    /\ UNCHANGED <<call, loopVars>>

\* upload_file returned or raised; process_file returns and listen() is resumed
process_uploaded ==
    /\ ad.pc = "upload"
    /\ ad' = [ad EXCEPT !.pc = "listen", !.gen = "waiting"]
    /\ UNCHANGED <<call, loopVars>>

\* (mutant) listen() treats the cancellation like a timeout and continues
listen_cancelled_continue ==
    /\ ad.pc = "listen"
    /\ ad.cancel
    /\ ad' = [ad EXCEPT !.cancel = FALSE]
    /\ UNCHANGED <<call, loopVars>>

\* CancelledError in listen()'s wait on the queue.  Matrix: the generator's
\* finally block cancels sync_task and awaits it.  Telegram, Signal: the
\* finally block is empty; run_adapter's except CancelledError, then finally.
listen_cancelled ==
    /\ ad.pc = "listen"
    /\ ad.cancel
    /\ IF ad.kind = "matrix"
       THEN ad' = [ad EXCEPT !.cancel = FALSE, !.gen = "closing", !.pc = "agen_finally"]
       ELSE ad' \in Disconnect([ad EXCEPT !.cancel = FALSE, !.gen = "closed"])
    /\ UNCHANGED <<call, loopVars>>

\* Matrix: sync_task ends cancelled, "except CancelledError: pass" in
\* listen()'s finally, the generator is closed and CancelledError reaches
\* run_adapter: except CancelledError, then finally
sync_task_cancelled ==
    /\ ad.pc = "agen_finally"
    /\ ad' \in Disconnect([ad EXCEPT !.task = "cancelled", !.gen = "closed"])
    /\ UNCHANGED <<call, loopVars>>

\* CancelledError in "await adapter.download_file(...)": it leaves
\* process_file and the async for; the generator stays suspended at its yield
download_cancelled ==
    /\ ad.pc = "download"
    /\ ad.cancel
    /\ ad' \in Disconnect([ad EXCEPT !.cancel = FALSE, !.gen = "abandoned"])
    /\ UNCHANGED <<call, loopVars>>

\* the abandoned generator is finalized (aclose() scheduled by the event
\* loop's asyncgen hook when the object is collected): its finally block runs
asyncgen_finalize ==
    /\ ad.pc # "upload"
    /\ ad.gen = "abandoned"
    /\ ad' = [ad EXCEPT !.gen = "closed",
                        !.task = IF ad.kind = "matrix" /\ @ \in {"created", "sync", "sleep"}
                                 THEN "cancelled" ELSE @]
    /\ UNCHANGED <<call, loopVars>>

\* _sync_forever at its loop test: "while self._running: await client.sync()"
SyncIter(s) ==
    IF s.running THEN [s EXCEPT !.task = "sync", !.attempts = @ + 1]
    ELSE [s EXCEPT !.task = "done"]

\* the sync task is not being cancelled and the event loop is free
SyncTaskRuns == ad.pc \notin {"upload", "agen_finally"}

\* _sync_forever starts
sync_forever_start ==
    /\ SyncTaskRuns
    /\ ad.task = "created"
    /\ ad.running => ad.attempts < MaxSyncs
    /\ ad' = SyncIter(ad)
    /\ UNCHANGED <<call, loopVars>>

\* client.sync returned, a SyncResponse or a SyncError: back to the loop test
sync_returned(failed) ==
    /\ SyncTaskRuns
    /\ ad.task = "sync"
    /\ ad.running => ad.attempts < MaxSyncs
    /\ ad' = SyncIter([ad EXCEPT !.fails = IF failed THEN @ + 1 ELSE @])
    /\ UNCHANGED <<call, loopVars>>

\* client.sync raised: except Exception logs and awaits asyncio.sleep(5)
sync_raised ==
    /\ SyncTaskRuns
    /\ ad.task = "sync"
    /\ ad' = [ad EXCEPT !.task = "sleep", !.fails = @ + 1]
    /\ UNCHANGED <<call, loopVars>>

\* the sleep is over: back to the loop test
sync_sleep_done ==
    /\ SyncTaskRuns
    /\ ad.task = "sleep"
    /\ ad.running => ad.attempts < MaxSyncs
    /\ ad' = SyncIter(ad)
    /\ UNCHANGED <<call, loopVars>>

\* the awaits of disconnect() returned: the run_adapter task is finished
disconnect_return ==
    /\ ad.pc = "disconnect"
    /\ ~ad.cancel
    /\ ad' = [ad EXCEPT !.pc = "done", !.disc = "returned",
                        !.app = IF ad.kind = "telegram" THEN "stopped" ELSE @,
                        !.task = IF ad.kind = "signal" THEN "cancelled" ELSE @]
    /\ UNCHANGED <<call, loopVars>>

\* CancelledError while disconnect() waits: the task ends with it
disconnect_cancelled ==
    /\ ad.pc = "disconnect"
    /\ ad.cancel
    /\ ad' = [ad EXCEPT !.cancel = FALSE, !.pc = "done", !.disc = "interrupted",
                        !.task = IF ad.kind = "signal" THEN "cancelled" ELSE @]
    /\ UNCHANGED <<call, loopVars>>

\* SIGINT / SIGTERM: stop_event.set().  The handler runs from the event loop,
\* after the first step of the tasks main created.
stop_signal ==
    /\ ad.pc \notin {"created", "upload"}
    /\ ad.main # "done"
    /\ ~ad.stop
    /\ ad' = [ad EXCEPT !.stop = TRUE]
    /\ UNCHANGED <<call, loopVars>>

\* stop_event.wait() returns; task.cancel()
supervisor_cancel ==
    /\ ad.pc # "upload"
    /\ ad.main = "wait"
    /\ ad.stop
    /\ ad' = [ad EXCEPT !.cancel = (ad.pc # "done"), !.main = "gather"]
    /\ UNCHANGED <<call, loopVars>>

\* gather returns when the task is finished; "Shutdown complete"
supervisor_gather ==
    /\ ad.main = "gather"
    /\ ad.pc = "done"
    /\ ad' = [ad EXCEPT !.main = "done"]
    /\ UNCHANGED <<call, loopVars>>

AdapterInit ==
    /\ LoopInit
    /\ ad \in {NewAdapter(kind) : kind \in Kinds}
    /\ call = NoCall

AdapterNext ==
    \/ connect_matrix
    \/ \E outcome \in {"ok", "unreachable", "whoami_error", "mismatch"} : verify_credentials(outcome)
    \/ \E outcome \in {"ok", "sync_error", "raised"} : initial_sync(outcome)
    \/ \E built \in BOOLEAN : connect_telegram(built)
    \/ \E outcome \in {"ok", "invalid_token", "network"} : telegram_initialize(outcome)
    \/ \E outcome \in {"ok", "network"} : telegram_start(outcome)
    \/ \E outcome \in {"ok", "network"} : telegram_start_polling(outcome)
    \/ \E outcome \in {"ok", "network"} : telegram_get_me(outcome)
    \/ \E built \in BOOLEAN : connect_signal(built)
    \/ connect_cancelled
    \/ disconnect_unconnected
    \/ on_file
    \/ listen_timeout
    \/ listen_yield
    \/ process_downloaded
    \/ process_download_failed
    \/ process_uploaded
    \/ listen_cancelled
    \/ sync_task_cancelled
    \/ download_cancelled
    \/ asyncgen_finalize
    \/ sync_forever_start
    \/ \E failed \in BOOLEAN : sync_returned(failed)
    \/ sync_raised
    \/ sync_sleep_done
    \/ disconnect_return
    \/ disconnect_cancelled
    \/ stop_signal
    \/ supervisor_cancel
    \/ supervisor_gather

AdapterSpec == AdapterInit /\ [][AdapterNext]_vars

\* The event loop runs every task that is ready, so each pending step of
\* shutdown is eventually taken: main resumes once stop_event is set, a
\* cancelled task gets its CancelledError, a synchronous upload_file call
\* returns, disconnect()'s awaits return, and gather returns.
FairAdapterSpec ==
    /\ AdapterSpec
    /\ WF_vars(supervisor_cancel)
    /\ WF_vars(connect_cancelled)
    /\ WF_vars(listen_cancelled)
    /\ WF_vars(download_cancelled)
    /\ WF_vars(sync_task_cancelled)
    /\ WF_vars(process_uploaded)
    /\ WF_vars(disconnect_return)
    /\ WF_vars(disconnect_cancelled)
    /\ WF_vars(supervisor_gather)

(***************************************************************************)
(* sanitize_path_component (src/path_resolver.py), applied to a string and *)
(* then to its own result.                                                 *)
(***************************************************************************)
\* all strings of at most n characters of the alphabet
StringsUpTo(alphabet, n) == UNION {[1..k -> alphabet] : k \in 0..n}

\* a letter, the replacement character, the two stripped characters and an
\* illegal character
SanitizeAlphabet == {"a", "_", ".", " ", "/"}

SanitizeInit ==
    /\ LoopInit
    /\ path_template = DefaultTemplate
    /\ ad = NewAdapter("matrix")
    /\ call \in {[fn |-> "sanitize_path_component", name |-> name, returned |-> <<>>] :
                     name \in StringsUpTo(SanitizeAlphabet, MaxLen)}

\* sanitize_path_component(name)
sanitize_call ==
    /\ call.fn = "sanitize_path_component"
    /\ call.returned = <<>>
    /\ call' = [call EXCEPT !.returned = <<sanitize_path_component(call.name)>>]
    /\ UNCHANGED <<loopVars, ad>>

\* sanitize_path_component applied to what it returned
sanitize_again ==
    /\ call.fn = "sanitize_path_component"
    /\ Len(call.returned) = 1
    /\ call' = [call EXCEPT !.returned = Append(@, sanitize_path_component(call.returned[1]))]
    /\ UNCHANGED <<loopVars, ad>>

SanitizeNext ==
    \/ sanitize_call
    \/ sanitize_again

SanitizeSpec == SanitizeInit /\ [][SanitizeNext]_vars

(***************************************************************************)
(* resolve_path (src/path_resolver.py), applied to a template and the      *)
(* metadata of a message.                                                  *)
(***************************************************************************)
\* the template "{filename_base}.{ext}"
SplitTemplate == <<"{", "f", "i", "l", "e", "n", "a", "m", "e", "_", "b", "a", "s", "e", "}", ".", "{", "e", "x", "t", "}">>

\* path templates a configuration can give
ResolveTemplates ==
    { DefaultTemplate,
      SplitTemplate,
      <<"{", "r", "o", "o", "m", "}", "/", "{", "f", "i", "l", "e", "n", "a", "m", "e", "_", "b", "a", "s", "e", "}", ".", "{", "e", "x", "t", "}">>,
      <<"{", "s", "e", "n", "d", "e", "r", "}", "/", "{", "d", "a", "t", "e", "}", "_", "{", "f", "i", "l", "e", "n", "a", "m", "e", "}">> }

\* room names, sender names and file names as chat content supplies them
RoomNames ==
    { <<"M", "y", " ", "R", "o", "o", "m">>,
      <<"x", "/", "y">>,
      <<"{", "s", "e", "n", "d", "e", "r", "}">>,
      <<"{", "e", "x", "t", "}">> }

SenderNames ==
    { <<"M", "o", "m">>,
      <<"a", "/", "b">> }

FileNames ==
    { <<"a", ".", "j", "p", "g">>,
      <<"x", ".", "b", "/", "c">>,
      <<"R", "E", "A", "D", "M", "E">>,
      <<"a", "_", "_", "b", ".", "t", "x", "t">>,
      <<"{", "e", "x", "t", "}", ".", "x">>,
      <<"x", ".", "/", "c">> }

ResolveInit ==
    /\ LoopInit
    /\ path_template = DefaultTemplate
    /\ ad = NewAdapter("matrix")
    /\ call \in {[fn |-> "resolve_path", template |-> template,
                   metadata |-> FileMetadata(platform_name("matrix"), room, sender, filename,
                                             [year |-> 2024, month |-> 7, day |-> 4,
                                              hour |-> 14, minute |-> 30]),
                   returned |-> <<>>] :
                     template \in ResolveTemplates, room \in RoomNames,
                     sender \in SenderNames, filename \in FileNames}

\* resolve_path(template, metadata)
resolve_call ==
    /\ call.fn = "resolve_path"
    /\ call.returned = <<>>
    /\ call' = [call EXCEPT !.returned = <<resolve_path(call.template, call.metadata)>>]
    /\ UNCHANGED <<loopVars, ad>>

ResolveNext == resolve_call

ResolveSpec == ResolveInit /\ [][ResolveNext]_vars

(***************************************************************************)
(* NextcloudUploader.upload_file and ensure_directory (src/uploader.py),   *)
(* followed call by call of the WebDAV client, and DryRunUploader on the   *)
(* same arguments.  call.ops is the log of the client's calls, call.dirs   *)
(* the directories on the server.                                          *)
(***************************************************************************)
\* PurePosixPath.parent
Parent(p) ==
    [abs |-> p.abs,
     parts |-> IF p.parts = <<>> THEN <<>> ELSE Take(p.parts, Len(p.parts) - 1)]

\* nextcloud.base_path as configured: the default, and a relative one
BasePaths == {base_path, <<"C", "h", "a", "t", "U", "p", "l", "o", "a", "d", "s">>}

\* remote relative paths as resolve_path gives them for the message "a.jpg"
RemotePaths ==
    { <<"a", ".", "j", "p", "g">>,
      <<"m", "a", "t", "r", "i", "x", "/", "a", ".", "j", "p", "g">>,
      <<"m", "a", "t", "r", "i", "x", "/", "M", "y", " ", "R", "o", "o", "m", "/", "a", ".", "j", "p", "g">>,
      <<"2", "0", "2", "4", "/", "0", "7", "/", "M", "o", "m", "_", "a", ".", "j", "p", "g">> }

\* the directory the target of upload_file lies in
TargetParentOf(base, remote_path) == Parent(PosixPath(FullPath(base, remote_path)))

\* what can exist on the server beforehand: the directories above the target
\* down to some depth (none of them, ..., all of them); under a relative
\* base_path the walk also asks for ".", which the server has or has not
InitialDirs(base, remote_path) ==
    LET chain == TargetParentOf(base, remote_path).parts
        tops == IF PosixPath(base).abs THEN {1} ELSE {0, 1}
    IN  { {Take(chain, k) : k \in top..depth} : top \in tops, depth \in 0..Len(chain) }

UploadInit ==
    /\ LoopInit
    /\ path_template = DefaultTemplate
    /\ ad = NewAdapter("matrix")
    /\ \E base \in BasePaths : \E remote_path \in RemotePaths :
         \E dirs \in InitialDirs(base, remote_path) :
           call = [fn |-> "upload_file", base_path |-> base, remote_path |-> remote_path,
                   initial |-> dirs, dirs |-> dirs,
                   pc |-> "start", current |-> PosixPath(<<"/">>), parts_to_create |-> <<>>,
                   ops |-> <<>>, returned |-> <<>>, dry |-> <<>>, dry_check |-> <<>>]

\* one call of the WebDAV client, as logged
ClientCall(op, path, outcome) == [op |-> op, path |-> path, outcome |-> outcome]

\* the existence checks made so far
Checks == SelectSeq(call.ops, LAMBDA c : c.op = "check")

\* upload_file up to its first client call: parent_dir is computed and, unless
\* it is ".", ensure_directory(parent_dir) starts at the full path
upload_begin ==
    /\ call.fn = "upload_file"
    /\ call.pc = "start"
    /\ LET parent_dir == PathStr(Parent(PosixPath(call.remote_path)))
       IN  IF parent_dir # <<".">>
           THEN call' = [call EXCEPT !.pc = "check",
                                     !.current = PosixPath(FullPath(call.base_path, parent_dir))]
           ELSE call' = [call EXCEPT !.pc = "upload"]
    /\ UNCHANGED <<loopVars, ad>>

\* one turn of ensure_directory's while loop: client.check(str(current))
ensure_check ==
    /\ call.fn = "upload_file"
    /\ call.pc = "check"
    /\ IF call.current = PosixPath(<<"/">>)
       THEN call' = [call EXCEPT !.pc = "mkdir"]
       ELSE IF call.current.parts \notin call.dirs
       THEN /\ Len(Checks) < MaxChecks
            /\ call' = [call EXCEPT !.ops = Append(@, ClientCall("check", PathStr(call.current), "False")),
                                    !.parts_to_create = Append(@, call.current),
                                    !.current = Parent(call.current)]
       ELSE call' = [call EXCEPT !.ops = Append(@, ClientCall("check", PathStr(call.current), "True")),
                                 !.pc = "mkdir"]
    /\ UNCHANGED <<loopVars, ad>>

\* (mutant) "for path in parts_to_create": the deepest directory first
ensure_mkdir_children_first(outcome) ==
    /\ call.fn = "upload_file"
    /\ call.pc = "mkdir"
    /\ IF call.parts_to_create = <<>>
       THEN outcome = "ok" /\ call' = [call EXCEPT !.pc = "upload"]
       ELSE LET path == Head(call.parts_to_create)
                logged == Append(call.ops, ClientCall("mkdir", PathStr(path), outcome))
            IN  IF outcome = "error"
                THEN call' = [call EXCEPT !.ops = logged, !.pc = "raised"]
                ELSE call' = [call EXCEPT !.ops = logged, !.parts_to_create = Tail(@),
                                          !.dirs = @ \cup {path.parts}]
    /\ UNCHANGED <<loopVars, ad>>

\* one turn of "for path in reversed(parts_to_create)": client.mkdir(str(path))
\* succeeds, raises "already exists" (ignored), or raises another
\* WebDavException (re-raised); after the last turn upload_sync is next
ensure_mkdir(outcome) ==
    /\ call.fn = "upload_file"
    /\ call.pc = "mkdir"
    /\ IF call.parts_to_create = <<>>
       THEN outcome = "ok" /\ call' = [call EXCEPT !.pc = "upload"]
       ELSE LET path == call.parts_to_create[Len(call.parts_to_create)]
                rest == Take(call.parts_to_create, Len(call.parts_to_create) - 1)
                logged == Append(call.ops, ClientCall("mkdir", PathStr(path), outcome))
            IN  IF outcome = "error"
                THEN call' = [call EXCEPT !.ops = logged, !.pc = "raised"]
                ELSE call' = [call EXCEPT !.ops = logged, !.parts_to_create = rest,
                                          !.dirs = @ \cup {path.parts}]
    /\ UNCHANGED <<loopVars, ad>>

\* client.upload_sync(remote_path=full_remote_path, ...) returns, and
\* upload_file returns full_remote_path, or it raises
upload_sync(ok) ==
    /\ call.fn = "upload_file"
    /\ call.pc = "upload"
    /\ LET full_remote_path == FullPath(call.base_path, call.remote_path)
           logged == Append(call.ops, ClientCall("upload_sync", full_remote_path,
                                                 IF ok THEN "ok" ELSE "error"))
       IN  IF ok
           THEN call' = [call EXCEPT !.ops = logged, !.pc = "returned",
                                     !.returned = <<full_remote_path>>]
           ELSE call' = [call EXCEPT !.ops = logged, !.pc = "raised"]
    /\ UNCHANGED <<loopVars, ad>>

\* (mutant) the dry run reports the relative path it was given
dry_upload_file_relative ==
    /\ call.fn = "upload_file"
    /\ call.dry = <<>>
    /\ call' = [call EXCEPT !.dry = <<call.remote_path>>]
    /\ UNCHANGED <<loopVars, ad>>

\* DryRunUploader.upload_file on the same arguments: logs and returns
\* _full_path(remote_path)
dry_upload_file ==
    /\ call.fn = "upload_file"
    /\ call.dry = <<>>
    /\ call' = [call EXCEPT !.dry = <<FullPath(call.base_path, call.remote_path)>>]
    /\ UNCHANGED <<loopVars, ad>>

\* DryRunUploader.check_connection
dry_check_connection ==
    /\ call.fn = "upload_file"
    /\ call.dry_check = <<>>
    /\ call' = [call EXCEPT !.dry_check = <<TRUE>>]
    /\ UNCHANGED <<loopVars, ad>>

UploadNext ==
    \/ upload_begin
    \/ ensure_check
    \/ \E outcome \in {"ok", "already exists", "error"} : ensure_mkdir(outcome)
    \/ \E ok \in BOOLEAN : upload_sync(ok)
    \/ dry_upload_file
    \/ dry_check_connection

UploadSpec == UploadInit /\ [][UploadNext]_vars

(***************************************************************************)
(* The adapters' message hooks: MatrixAdapter._on_message,                 *)
(* TelegramAdapter._on_file_message and FileCollectorCommand.handle, each  *)
(* applied to inbound messages of its backend.  call.queue is the          *)
(* adapter's _file_queue; call.log records each message handled with the   *)
(* queue before and after.                                                 *)
(***************************************************************************)
\* the account the adapter is logged in as (config.user_id, the bot's own
\* user, config.phone_number)
OwnUser(kind) ==
    CASE kind = "matrix" -> "@bot:example.org"
      [] kind = "telegram" -> "bot"
      [] kind = "signal" -> "+10000000001"

Senders(kind) == {OwnUser(kind), "alice"}

Mxc == <<"m", "x", "c", ":", "/", "/">>

\* content.get("url", "") of a Matrix media event
ContentUrls ==
    { <<>>,
      <<"m", "x", "c", ":", "/", "/", "s", "/", "1">>,
      <<"m", "x", "c", ":", "/", "s", "/", "1">>,
      <<"h", "t", "t", "p", "s", ":", "/", "/", "s", "/", "1">> }

MatrixEvents ==
    [sender : Senders("matrix"), url : ContentUrls, body : {<<"a", ".", "j", "p", "g">>}, server_timestamp : {17}]

\* the kinds of media _on_file_message looks for, in the order of its tests
MediaKinds == <<"document", "photo", "video", "audio", "voice", "video_note">>

\* message.photo: the sizes of one photo, smallest first
PhotoSizes == <<"photo_small", "photo_large">>

\* the media a message carries: none, one kind, or two kinds at once
MediaSets ==
    {media \in SUBSET {MediaKinds[i] : i \in 1..Len(MediaKinds)} : Cardinality(media) <= 2}

\* update.message is None, or a message with its sender and media; the
\* file_size of the media is known or not
TelegramUpdates ==
    {[message |-> FALSE, sender |-> "alice", media |-> {}, size_known |-> FALSE]}
        \cup [message : {TRUE}, sender : Senders("telegram"), media : MediaSets,
              size_known : {TRUE}]
        \cup [message : {TRUE}, sender : {"alice"},
              media : {media \in MediaSets : Cardinality(media) = 1}, size_known : {FALSE}]

\* base64 payloads: one that decodes to three bytes, one that b64decode rejects
Payloads == {<<"Y", "W", "J", "j">>, <<"Y">>}

\* who sent a Signal message, where, and when (timestamp 0: none given)
SignalEnvelopes ==
    { [source |-> OwnUser("signal"), group |-> "g1", timestamp |-> 17],
      [source |-> "alice", group |-> "none", timestamp |-> 17],
      [source |-> "alice", group |-> "g1", timestamp |-> 0] }

SignalMessages ==
    { [source |-> env.source, group |-> env.group, timestamp |-> env.timestamp,
       base64_attachments |-> attachments, attachments_local_filenames |-> filenames] :
         env \in SignalEnvelopes,
         attachments \in {<<>>, <<<<"Y", "W", "J", "j">>>>, <<<<"Y">>>>, <<<<"Y", "W", "J", "j">>, <<"Y">>>>},
         filenames \in {<<>>, <<<<"p", ".", "j", "p", "g">>>>, <<<<"p", ".", "j", "p", "g">>, <<"q", ".", "p", "n", "g">>>>} }

\* the fields of the FileMessage a hook builds that tell events apart
Event(platform, room_id, sender_id, filename, size, timestamp, download_url) ==
    [platform |-> platform, room_id |-> room_id, sender_id |-> sender_id,
     filename |-> filename, size |-> size, timestamp |-> timestamp,
     download_url |-> download_url]

\* the hook has run on msg and left the queue as after
Hooked(msg, after) ==
    [call EXCEPT !.queue = after,
                 !.log = Append(@, [msg |-> msg, before |-> call.queue, after |-> after])]

HookInit ==
    /\ LoopInit
    /\ path_template = DefaultTemplate
    /\ ad = NewAdapter("matrix")
    /\ call \in {[fn |-> "hook", kind |-> kind, queue |-> <<>>, log |-> <<>>] : kind \in Kinds}

\* the FileMessage _on_message builds (the event carries no size: 0)
MatrixFileMessage(event) ==
    Event("matrix", "!room", event.sender, event.body, 0, event.server_timestamp, event.url)

\* _on_message without the test of event.sender
matrix_on_message_any_sender(event) ==
    /\ call.fn = "hook" /\ call.kind = "matrix"
    /\ Len(call.log) < MaxHooked
    /\ call' = IF ~StartsWith(event.url, Mxc)
               THEN Hooked(event, call.queue)
               ELSE Hooked(event, Append(call.queue, MatrixFileMessage(event)))
    /\ UNCHANGED <<loopVars, ad>>

\* MatrixAdapter._on_message
matrix_on_message(event) ==
    /\ call.fn = "hook" /\ call.kind = "matrix"
    /\ Len(call.log) < MaxHooked
    /\ call' = IF event.sender = OwnUser("matrix")
               THEN Hooked(event, call.queue)
               ELSE IF ~StartsWith(event.url, Mxc)
               THEN Hooked(event, call.queue)
               ELSE Hooked(event, Append(call.queue, MatrixFileMessage(event)))
    /\ UNCHANGED <<loopVars, ad>>

\* the if / elif chain of _on_file_message: the first kind the message has
FirstKind(media) ==
    MediaKinds[CHOOSE i \in 1..Len(MediaKinds) :
                 /\ MediaKinds[i] \in media
                 /\ \A j \in 1..(i - 1) : MediaKinds[j] \notin media]

\* the file_id taken from the media of that kind; of a photo, message.photo[-1]
FileId(kind) == IF kind = "photo" THEN PhotoSizes[Len(PhotoSizes)] ELSE kind

\* the filename given to the media when it brings none (message_id 1)
DefaultName(kind) ==
    CASE kind = "document" -> "document"
      [] kind = "photo" -> "photo_1.jpg"
      [] kind = "video" -> "video_1.mp4"
      [] kind = "audio" -> "audio_1.mp3"
      [] kind = "voice" -> "voice_1.ogg"
      [] kind = "video_note" -> "video_note_1.mp4"

\* the FileMessage _on_file_message builds; "file_size or 0"
TelegramFileMessage(update, file_id) ==
    Event("telegram", "chat1", update.sender, DefaultName(FirstKind(update.media)),
          IF update.size_known THEN 7 ELSE 0, 17, file_id)

\* (mutant) the first size of the photo is taken, message.photo[0]
telegram_on_file_message_first_size(update) ==
    /\ call.fn = "hook" /\ call.kind = "telegram"
    /\ Len(call.log) < MaxHooked
    /\ call' = IF ~update.message
               THEN Hooked(update, call.queue)
               ELSE IF update.media = {}
               THEN Hooked(update, call.queue)
               ELSE LET kind == FirstKind(update.media)
                        file_id == IF kind = "photo" THEN PhotoSizes[1] ELSE kind
                    IN  Hooked(update, Append(call.queue, TelegramFileMessage(update, file_id)))
    /\ UNCHANGED <<loopVars, ad>>

\* TelegramAdapter._on_file_message
telegram_on_file_message(update) ==
    /\ call.fn = "hook" /\ call.kind = "telegram"
    /\ Len(call.log) < MaxHooked
    /\ call' = IF ~update.message
               THEN Hooked(update, call.queue)
               ELSE IF update.media = {}
               THEN Hooked(update, call.queue)
               ELSE Hooked(update, Append(call.queue,
                                          TelegramFileMessage(update,
                                                              FileId(FirstKind(update.media)))))
    /\ UNCHANGED <<loopVars, ad>>

\* str(n) of a natural number
RECURSIVE ToStr(_)
ToStr(n) == IF n < 10 THEN <<DigitChar[n + 1]>> ELSE ToStr(n \div 10) \o <<DigitChar[(n % 10) + 1]>>

\* f"attachment_{message.timestamp}_{i}"
AttachmentName(timestamp, i) == <<"a", "t", "t", "a", "c", "h", "m", "e", "n", "t", "_">> \o ToStr(timestamp) \o <<"_">> \o ToStr(i)

\* len(base64.b64decode(b64_data)), or 0 when b64decode raises
DecodedSize(b64_data) == IF b64_data = <<"Y", "W", "J", "j">> THEN 3 ELSE 0

\* datetime.now(timezone.utc), on the scale of the message timestamps
Now == 99

\* the FileMessage handle builds for attachment number i (from 0)
SignalFileMessage(message, i) ==
    LET filenames == message.attachments_local_filenames
    IN  Event("signal",
              IF message.group # "none" THEN message.group ELSE message.source,
              message.source,
              IF i < Len(filenames) THEN filenames[i + 1] ELSE AttachmentName(message.timestamp, i),
              DecodedSize(message.base64_attachments[i + 1]),
              IF message.timestamp # 0 THEN message.timestamp ELSE Now,
              message.base64_attachments[i + 1])

\* (mutant) only the first attachment is collected
signal_handle_first_only(message) ==
    /\ call.fn = "hook" /\ call.kind = "signal"
    /\ Len(call.log) < MaxHooked
    /\ call' = IF message.base64_attachments = <<>>
               THEN Hooked(message, call.queue)
               ELSE Hooked(message, Append(call.queue, SignalFileMessage(message, 0)))
    /\ UNCHANGED <<loopVars, ad>>

\* FileCollectorCommand.handle: one FileMessage per attachment
signal_handle(message) ==
    /\ call.fn = "hook" /\ call.kind = "signal"
    /\ Len(call.log) < MaxHooked
    /\ call' = IF message.base64_attachments = <<>>
               THEN Hooked(message, call.queue)
               ELSE Hooked(message,
                           call.queue \o [k \in 1..Len(message.base64_attachments) |->
                                             SignalFileMessage(message, k - 1)])
    /\ UNCHANGED <<loopVars, ad>>

HookNext ==
    \/ \E event \in MatrixEvents : matrix_on_message(event)
    \/ \E update \in TelegramUpdates : telegram_on_file_message(update)
    \/ \E message \in SignalMessages : signal_handle(message)

HookSpec == HookInit /\ [][HookNext]_vars

(***************************************************************************)
(* One adapter's buffer from connect() to the consumption loop: the hooks  *)
(* put messages into _file_queue from the moment connect() has registered  *)
(* them and runs its initial sync; run_adapter's "async for" takes them    *)
(* through listen().  call.queue is _file_queue, call.yielded what         *)
(* listen() has yielded; a message is marked early when it was put before  *)
(* connect() returned.                                                     *)
(***************************************************************************)
ListenInit ==
    /\ LoopInit
    /\ path_template = DefaultTemplate
    /\ ad = NewAdapter("matrix")
    /\ call = [fn |-> "listen", pc |-> "connect", put |-> 0, queue |-> <<>>, yielded |-> <<>>]

\* _on_message: await self._file_queue.put(file_message)
buffer_put ==
    /\ call.fn = "listen"
    /\ call.pc \in {"connect", "listen", "process"}
    /\ call.put < MaxPut
    /\ call' = [call EXCEPT !.put = @ + 1,
                            !.queue = Append(@, [n |-> call.put + 1,
                                                 early |-> call.pc = "connect"])]
    /\ UNCHANGED <<loopVars, ad>>

\* (mutant) listen() begins with a new, empty queue
listen_begin_new_queue ==
    /\ call.fn = "listen"
    /\ call.pc = "connect"
    /\ call' = [call EXCEPT !.pc = "listen", !.queue = <<>>]
    /\ UNCHANGED <<loopVars, ad>>

\* connect() returned; run_adapter calls adapter.listen(), which sets
\* _running and waits on the queue the adapter was constructed with
listen_begin ==
    /\ call.fn = "listen"
    /\ call.pc = "connect"
    /\ call' = [call EXCEPT !.pc = "listen"]
    /\ UNCHANGED <<loopVars, ad>>

\* wait_for(self._file_queue.get(), timeout=1.0) returned the oldest message;
\* listen() yields it and run_adapter awaits process_file
listen_get ==
    /\ call.fn = "listen"
    /\ call.pc = "listen"
    /\ call.queue # <<>>
    /\ call' = [call EXCEPT !.pc = "process",
                            !.yielded = Append(@, Head(call.queue)),
                            !.queue = Tail(@)]
    /\ UNCHANGED <<loopVars, ad>>

\* the wait timed out on an empty queue: continue
listen_get_timeout ==
    /\ call.fn = "listen"
    /\ call.pc = "listen"
    /\ call.queue = <<>>
    /\ call' = call
    /\ UNCHANGED <<loopVars, ad>>

\* process_file returned; the async for asks listen() for the next message
process_file_returned ==
    /\ call.fn = "listen"
    /\ call.pc = "process"
    /\ call' = [call EXCEPT !.pc = "listen"]
    /\ UNCHANGED <<loopVars, ad>>

\* the task is cancelled, or connect() raised: the loop is over
loop_ended ==
    /\ call.fn = "listen"
    /\ call.pc \in {"connect", "listen", "process"}
    /\ call' = [call EXCEPT !.pc = "stopped"]
    /\ UNCHANGED <<loopVars, ad>>

ListenNext ==
    \/ buffer_put
    \/ listen_begin
    \/ listen_get
    \/ listen_get_timeout
    \/ process_file_returned
    \/ loop_ended

ListenSpec == ListenInit /\ [][ListenNext]_vars

(***************************************************************************)
(* Properties.                                                             *)
(***************************************************************************)
Last(s) == s[Len(s)]

\* process_file returned in this step
Returned(a) == Len(results'[a]) = Len(results[a]) + 1

\* a step in which the fetch of a's current message raises
FetchRaises(a) == pc[a] = "download" /\ ~cancelReq[a] /\ pc'[a] \notin {"download", "upload"}

\* a step in which the upload of a's current message raises
UploadRaises(a) ==
    /\ pc[a] = "upload"
    /\ pc'[a] # "upload"
    /\ ~(Returned(a) /\ Last(results'[a]).ret # None)

\* C1: when process() fails for one event (fetch or upload raises), the
\* adapter's loop is back waiting on its buffer with the later events still
\* queued, the stop signal is not set by it and no other adapter's loop is
\* touched.
C1_FailureIsolated ==
    [][\A a \in Adapters :
         (FetchRaises(a) \/ UploadRaises(a)) =>
            /\ pc'[a] = "listen"
            /\ running'[a]
            /\ file_queue'[a] = file_queue[a]
            /\ stop_event' = stop_event
            /\ cancelReq' = cancelReq
            /\ \A b \in Adapters \ {a} :
                 pc'[b] = pc[b] /\ running'[b] = running[b] /\ cur'[b] = cur[b]]_vars

\* C1 witness: an adapter whose first process() failed has processed a later
\* event successfully, with the stop signal still clear
C1_Witness ==
    \E a \in Adapters :
        /\ Len(results[a]) >= 2
        /\ results[a][1].ret = None
        /\ results[a][2].ret # None
        /\ ~stop_event

\* C2: if fetch raises for an event, upload is never called for that event
\* and process() returns None.
C2_NoUploadAfterFetchFailure ==
    \A a \in Adapters : \A i \in 1..Len(results[a]) :
        results[a][i].fetch = "raised" =>
            /\ results[a][i].ret = None
            /\ \A j \in 1..Len(calls[a]) :
                 calls[a][j].file_message.id = results[a][i].id => calls[a][j].op # "upload_file"

\* C2 witness: a process() call whose fetch raised has returned
C2_Witness ==
    \E a \in Adapters : \E i \in 1..Len(results[a]) : results[a][i].fetch = "raised"

\* C3: process() returns the path the storage backend returned when fetch and
\* upload both succeeded and None otherwise, and an exception of fetch or
\* upload never leaves it: only a cancellation takes the task out of
\* process().
C3_ReturnValue ==
    \A a \in Adapters : \A i \in 1..Len(results[a]) :
        LET r == results[a][i]
        IN  r.ret = IF r.fetch = "ok" /\ r.upload = "ok" THEN r.uploaded_path ELSE None

C3_NeverPropagates ==
    /\ []C3_ReturnValue
    /\ [][\A a \in Adapters :
            (pc[a] \in {"download", "upload"} /\ pc'[a] \notin {"download", "upload"}) =>
               \/ pc'[a] = "listen" /\ Returned(a)
               \/ cancelReq[a]]_vars

\* C3 witness: one adapter has returned from a failed upload and from a
\* successful one
C3_Witness ==
    \E a \in Adapters : \E i, j \in 1..Len(results[a]) :
        /\ results[a][i].upload = "raised" /\ results[a][i].ret = None
        /\ results[a][j].upload = "ok" /\ results[a][j].ret # None

\* C4 (as claimed): whenever no process() call is in flight for a file, the
\* file is not on disk, and no two process() calls write the same file.
C4_NoResidualFile ==
    /\ \A f \in fs : \E a \in Adapters : cur[a] # None /\ RealPath(cur[a][1].local_path) = f
    /\ \A a, b \in Adapters :
         (a # b /\ cur[a] # None /\ cur[b] # None) =>
            RealPath(cur[a][1].local_path) # RealPath(cur[b][1].local_path)

\* C5: on the success path fetch is called once, then upload once with the
\* file fetch wrote and the remote path resolve(template, metadata), metadata
\* being (platform, room name, sender name, filename, timestamp) of the
\* event; process() returns what upload returned.  Stated of the step in
\* which process() returns a path.
C5_SuccessPath ==
    [][\A a \in Adapters :
         (Returned(a) /\ Last(results'[a]).ret # None) =>
            LET r == Last(results'[a])
                cs == SelectSeq(calls'[a], LAMBDA c : c.file_message.id = r.id)
            IN  /\ Len(cs) = 2
                /\ cs[1].op = "download_file"
                /\ cs[2].op = "upload_file"
                /\ cs[2].local_path = cs[1].local_path
                /\ LET m == cs[1].file_message
                   IN  cs[2].remote_path =
                         Some(resolve_path(path_template,
                                           FileMetadata(m.platform, m.room_name, m.sender_name,
                                                        m.filename, m.timestamp)))
                /\ r.ret = r.uploaded_path
                /\ r.uploaded_path = Some(PathStr(PathJoin(PosixPath(base_path),
                                                           PosixPath(cs[2].remote_path[1]))))]_vars

\* C5 witness: a process() call has returned a remote path
C5_Witness ==
    \E a \in Adapters : \E i \in 1..Len(results[a]) : results[a][i].ret # None

\* C6 (as claimed): every event that was queued in a running adapter's buffer
\* when another adapter's connect() failed has been passed to process() by
\* the time the supervisor is done.
C6_QueuedStillDelivered ==
    mainPc = "done" =>
        \A id \in history.owed :
            \E j \in 1..Len(calls[id[1]]) : calls[id[1]][j].file_message.id = id

\* C7: once an adapter's connect() has raised the authentication error the
\* stop signal is set; the supervisor, while it still waits, is ready to
\* cancel the tasks as soon as the event loop is free; and once it has, every
\* adapter's loop either is left (its task is in disconnect() or finished)
\* or has its cancellation pending, with raising it as its only next step.
C7_AuthErrorStopsAll ==
    \A a \in Adapters :
        history.connect[a] = "auth" =>
            /\ stop_event
            /\ (mainPc = "wait" /\ LoopFree) => ENABLED MainCancel
            /\ mainPc # "wait" =>
                 \A b \in Adapters :
                    \/ pc[b] \in {"disconnect", "done"}
                    \/ /\ cancelReq[b]
                       /\ ENABLED (CancelledInConnect(b) \/ CancelledInListen(b)
                                     \/ CancelledInDownload(b))
                       /\ ~ENABLED (RunAdapterConnected(b) \/ ProcessFileStart(b)
                                      \/ ProcessFileDownloaded(b) \/ ProcessFileDownloadFailed(b))

\* C7 witness: connect() raised the authentication error while the other
\* adapter was processing a file, and the supervisor has finished
C7_Witness ==
    /\ history.connect["matrix"] = "auth"
    /\ calls["telegram"] # <<>>
    /\ mainPc = "done"

\* C8 (as claimed): a connect() failure other than the authentication error
\* leaves the stop signal as it was and the other adapters untouched.
C8_OtherFailureNonFatal ==
    [][\A a \in Adapters :
         (history.connect[a] # "error" /\ history'.connect[a] = "error") =>
            /\ stop_event' = stop_event
            /\ \A b \in Adapters \ {a} : pc'[b] = pc[b] /\ cancelReq'[b] = cancelReq[b]]_vars

\* C9: disconnect() is invoked exactly once per adapter however its loop
\* exits: not before the loop is left, once from then on.
C9_DisconnectOnce ==
    \A a \in Adapters :
        history.disconnects[a] = IF pc[a] \in {"disconnect", "done"} THEN 1 ELSE 0

\* C9 witness: the supervisor is done, one adapter left through a connect
\* failure and the other was cancelled after it had connected
C9_Witness ==
    /\ mainPc = "done"
    /\ \E a, b \in Adapters :
         /\ history.connect[a] \in {"auth", "error"}
         /\ history.connect[b] = "ok"
         /\ history.disconnects[a] = 1
         /\ history.disconnects[b] = 1

\* C10: the supervisor reports "Shutdown complete" only when every adapter's
\* task is finished, its disconnect() call included.
C10_ShutdownAfterAllStopped ==
    mainPc = "done" => \A a \in Adapters : pc[a] = "done" /\ history.disconnects[a] = 1

\* C10 witness: the supervisor is done and an adapter that had been
\* delivering files has been stopped
C10_Witness ==
    /\ mainPc = "done"
    /\ \E a \in Adapters : results[a] # <<>>

\* ids of the calls of one operation an adapter's loop has made, in call order
CallIds(a, op) ==
    LET sel == SelectSeq(calls[a], LAMBDA c : c.op = op)
    IN  [i \in 1..Len(sel) |-> sel[i].file_message.id]

\* ids waiting in an adapter's buffer, in buffer order
QueuedIds(a) == [i \in 1..Len(file_queue[a]) |-> file_queue[a][i].id]

Distinct(s) == \A i, j \in 1..Len(s) : i # j => s[i] # s[j]

Range(s) == {s[i] : i \in 1..Len(s)}

\* C11: a fetch or an upload in flight for the current message ends only by
\* itself (the upload starts, or process_file returns a value); the loop never
\* leaves it because of the stop signal.
\* Refuted: task.cancel() raises CancelledError at "await download_file".
C11_TransferNotInterrupted ==
    [][\A a \in Adapters :
         (pc[a] \in {"download", "upload"} /\ pc'[a] # pc[a])
             => (pc'[a] = "upload" \/ Returned(a))]_vars

\* C12: while one adapter is inside a fetch or an upload, another adapter
\* whose loop waits on a non-empty buffer can take its next message.
\* Refuted: upload_file is a synchronous call made on the event loop.
C12_OthersCanProgress ==
    \A a, b \in Adapters :
        (/\ a # b
         /\ pc[a] \in {"download", "upload"}
         /\ pc[b] = "listen" /\ running[b] /\ ~cancelReq[b]
         /\ file_queue[b] # <<>>)
            => CanTake(b)

\* C14: every message is taken from the buffer at most once, fetched at most
\* once and uploaded at most once, and a message that has been taken is never
\* in the buffer again, whatever the outcome of its fetch or upload.
C14_AtMostOnce ==
    \A a \in Adapters :
        /\ Distinct(CallIds(a, "download_file"))
        /\ Distinct(CallIds(a, "upload_file"))
        /\ Distinct(QueuedIds(a))
        /\ Distinct([i \in 1..Len(results[a]) |-> results[a][i].id])
        /\ Range(QueuedIds(a)) \cap Range(CallIds(a, "download_file")) = {}
        /\ Range(CallIds(a, "upload_file")) \subseteq Range(CallIds(a, "download_file"))

\* an upload failed and the loop went on; another message waits in the buffer
C14_Witness ==
    \E a \in Adapters :
        /\ Len(results[a]) = 1
        /\ results[a][1].upload = "raised"
        /\ pc[a] = "listen"
        /\ file_queue[a] # <<>>

\* C15: an adapter has at most one process_file in flight, and its messages
\* are processed in the order in which they were put in the buffer: the k-th
\* message processed is the k-th message enqueued.
C15_SerializedFifo ==
    \A a \in Adapters :
        LET started == CallIds(a, "download_file")
        IN  /\ \A k \in 1..Len(started) : started[k] = <<a, k>>
            /\ \A k \in 1..Len(file_queue[a]) : file_queue[a][k].id = <<a, Len(started) + k>>
            /\ (cur[a] # None) <=> (pc[a] \in {"download", "upload"})
            /\ Len(results[a]) <= Len(started)
            /\ Len(started) <= Len(results[a]) + 1
            /\ (cur[a] # None) => Len(started) = Len(results[a]) + 1
            /\ (pc[a] = "listen") => Len(started) = Len(results[a])
            /\ \A k \in 1..Len(results[a]) : results[a][k].id = <<a, k>>

\* two messages waited in one buffer; the first is done, the second in flight
C15_Witness ==
    \E a \in Adapters :
        /\ Len(results[a]) = 1
        /\ cur[a] # None
        /\ cur[a][1].file_message.id = <<a, 2>>
        /\ made[a] = 2

\* C13: once the stop signal is set, the adapter's loop exits and main
\* completes its shutdown, also when the queue is empty and no message ever
\* arrives.
C13_StopLeadsToShutdown == ad.stop ~> (ad.pc = "done" /\ ad.main = "done")

\* a connected adapter that never received a message was stopped while its
\* loop waited on the empty queue, and shutdown is complete
C13_Witness ==
    /\ ad.connected
    /\ ad.received = 0
    /\ ad.cause = "none"
    /\ ad.gen = "closed"
    /\ ad.main = "done"

\* C16: disconnect() on an adapter that was never connected, or whose
\* connect() did not complete, does not raise and leaves _running False.
\* Refuted: Telegram's disconnect awaits updater.stop() whenever
\* self.application is set, and that raises unless the updater is polling.
C16_DisconnectSafe ==
    (~ad.connected /\ ad.disc # "none")
        => (ad.disc # "raised" /\ ~ad.running)

\* C17: after disconnect() has returned, the maintenance task is finished or
\* cancelled.
\* Refuted: Matrix's sync_task is cancelled only by listen()'s finally block,
\* which has not run when the loop was cancelled inside process_file.
C17_TaskStoppedAfterDisconnect ==
    ad.disc = "returned" => ad.task \in {"none", "done", "cancelled"}

\* C18: while the adapter is running, a failed sync of the maintenance loop
\* is followed by the fixed delay before the next sync.
\* Refuted: a SyncError that client.sync returns is not an exception, and
\* the loop calls sync again at once.
C18_FailedSyncDelayed ==
    [][(ad'.fails > ad.fails /\ ad.running) => ad'.task = "sleep"]_vars

\* C19: connect() raises the authentication error exactly when the
\* credentials are the problem (invalid or expired token, user id mismatch).
\* Refuted: Matrix raises MatrixAuthError for an unreachable homeserver and
\* for a failed initial sync, and Telegram raises a library error for an
\* invalid token.
C19_AuthErrorOnlyForCredentials ==
    (ad.raised = "auth") <=> (ad.cause \in {"invalid_token", "mismatch"})

\* C20: Matrix connect() verifies the credentials first.  When whoami returns
\* an error or another user id it raises MatrixAuthError with no callback
\* registered and no sync made; until whoami has answered nothing is
\* registered or synced; when connect() has returned, five callbacks are
\* registered and exactly one sync was made by it.
C20_VerifyFirst ==
    ad.kind = "matrix" =>
        /\ (ad.cause \in {"invalid_token", "mismatch"}
                => (ad.raised = "auth" /\ ad.callbacks = 0 /\ ad.syncs = 0 /\ ~ad.connected))
        /\ (ad.pc \in {"created", "whoami"} => (ad.callbacks = 0 /\ ad.syncs = 0))
        /\ (ad.callbacks = 5 <=> ad.syncs = 1)
        /\ ad.callbacks \in {0, 5}
        /\ (ad.connected => (ad.callbacks = 5 /\ ad.syncs = 1))

\* the token belongs to another user: connect() raised and run_adapter is done
C20_Witness ==
    /\ ad.kind = "matrix"
    /\ ad.cause = "mismatch"
    /\ ad.raised = "auth"
    /\ ad.pc = "done"

\* C23: sanitize is idempotent: applied to its own result it returns that
\* result.
C23_SanitizeIdempotent ==
    (call.fn = "sanitize_path_component" /\ Len(call.returned) = 2)
        => call.returned[2] = call.returned[1]

\* "/_." was sanitized to "_" and that result sanitized again
C23_Witness ==
    /\ call.fn = "sanitize_path_component"
    /\ call.name = <<"/", "_", ".">>
    /\ Len(call.returned) = 2
    /\ call.returned[1] = <<"_">>

\* a string sanitize has nothing to do on
Clean(s) ==
    /\ s # <<>>
    /\ \A i \in 1..Len(s) : s[i] \notin IllegalChars
    /\ s[1] \notin StripChars
    /\ s[Len(s)] \notin StripChars
    /\ \A i \in 1..(Len(s) - 1) : ~(s[i] = "_" /\ s[i + 1] = "_")

\* C24: sanitize returns a non-empty string with no illegal character, no
\* leading or trailing dot or space and no doubled underscore; "unknown" for
\* an input that is empty or made of dots and spaces only; and the input
\* itself when the input already has these properties.
C24_SanitizeResult ==
    (call.fn = "sanitize_path_component" /\ Len(call.returned) >= 1)
        => /\ Clean(call.returned[1])
           /\ (\A i \in 1..Len(call.name) : call.name[i] \in StripChars)
                  => call.returned[1] = Unknown
           /\ Clean(call.name) => call.returned[1] = call.name

\* ". ." was sanitized to "unknown"
C24_Witness ==
    /\ call.fn = "sanitize_path_component"
    /\ call.name = <<".", " ", ".">>
    /\ call.returned = <<Unknown>>

\* number of occurrences of the character c in s
Count(s, c) == Cardinality({i \in 1..Len(s) : s[i] = c})

\* positions in the variables dict of the values taken from chat content:
\* room, sender, filename, filename_base, ext
ChatKeys == 2..6

\* C21: every value that comes from chat content is substituted without any
\* of the characters <>:"/\|?*, so the resolved path has exactly the
\* separators the template has.
\* Refuted: ext is the text after the filename's last dot, not sanitized.
C21_NoSeparatorFromChat ==
    (call.fn = "resolve_path" /\ call.returned # <<>>)
        => /\ \A k \in ChatKeys :
                \A i \in 1..Len(Variables(call.metadata)[k][2]) :
                    Variables(call.metadata)[k][2][i] \notin IllegalChars
           /\ Count(call.returned[1], "/") = Count(call.template, "/")

\* "{key}"
Token(key) == <<"{">> \o key \o <<"}">>

\* the simultaneous replacement of every placeholder token of the template
\* by its value: the template is read once, left to right, and a value that
\* was put in is not read again
RECURSIVE Simultaneous(_, _)
Simultaneous(template, variables) ==
    IF template = <<>> THEN <<>>
    ELSE LET hits == {k \in 1..Len(variables) : StartsWith(template, Token(variables[k][1]))}
         IN  IF hits = {} THEN <<Head(template)>> \o Simultaneous(Tail(template), variables)
             ELSE LET k == CHOOSE h \in hits : TRUE
                  IN  variables[k][2]
                          \o Simultaneous(Drop(template, Len(Token(variables[k][1]))), variables)

\* C22: the result of resolve is the simultaneous replacement of the
\* template's placeholder tokens by their values; a value that looks like a
\* placeholder stays as it is.
\* Refuted: the keys are replaced one after the other on the growing result,
\* so a token inside a value put in earlier is replaced by a later key.
C22_SinglePass ==
    (call.fn = "resolve_path" /\ call.returned # <<>>)
        => call.returned[1] = Simultaneous(call.template, Variables(call.metadata))

\* C25: "{filename_base}.{ext}" resolves to the filename itself when the
\* filename has only legal characters and a non-empty part before its last
\* dot, and to the filename followed by a dot when it has no dot.
\* Refuted: a filename such as "{ext}.x" resolves to "x.x".
C25_SplitRoundTrip ==
    (/\ call.fn = "resolve_path" /\ call.returned # <<>>
     /\ call.template = SplitTemplate
     /\ \A i \in 1..Len(call.metadata.filename) : call.metadata.filename[i] \notin IllegalChars)
        => LET filename == call.metadata.filename
           IN  /\ (Contains(filename, ".") /\ SplitExt(filename)[1] # <<>>)
                      => call.returned[1] = filename
               /\ ~Contains(filename, ".") => call.returned[1] = filename \o <<".">>

\* the upload has been issued
UploadIssued == \E i \in 1..Len(call.ops) : call.ops[i].op = "upload_sync"

\* C26: when upload_file issues the upload, every directory between the
\* storage root and the target (base_path included) exists; directories are
\* created parents first; and the value returned is base_path joined with
\* the relative path.
\* Refuted: for a relative path without a directory part upload_file does not
\* call ensure_directory, and a missing base_path is not created.
C26_DirectoriesBeforeUpload ==
    call.fn = "upload_file" =>
        /\ UploadIssued =>
               \A k \in 1..Len(TargetParentOf(call.base_path, call.remote_path).parts) :
                   Take(TargetParentOf(call.base_path, call.remote_path).parts, k) \in call.dirs
        /\ \A i \in 1..Len(call.ops) :
               call.ops[i].op = "mkdir" =>
                   LET parent == Parent(PosixPath(call.ops[i].path))
                   IN  \/ parent.parts = <<>>
                       \/ parent.parts \in call.initial
                       \/ \E j \in 1..(i - 1) :
                              call.ops[j].op = "mkdir" /\ call.ops[j].path = PathStr(parent)
        /\ call.pc = "returned" =>
               call.returned = <<call.base_path \o <<"/">> \o call.remote_path>>

\* C27: the Matrix hook appends exactly one event to the buffer when the
\* sender is not the adapter's own user and the content URL starts with
\* "mxc://", and leaves the buffer as it was in every other case.
C27_MatrixHookEnqueues ==
    (call.fn = "hook" /\ call.kind = "matrix") =>
        \A i \in 1..Len(call.log) :
            LET h == call.log[i]
            IN  IF h.msg.sender # OwnUser("matrix") /\ StartsWith(h.msg.url, Mxc)
                THEN /\ Len(h.after) = Len(h.before) + 1
                     /\ Take(h.after, Len(h.before)) = h.before
                     /\ h.after[Len(h.after)].download_url = h.msg.url
                ELSE h.after = h.before

\* one message was enqueued, then an own message and a non-mxc one were not
C27_Witness ==
    /\ call.fn = "hook" /\ call.kind = "matrix"
    /\ Len(call.log) = 2
    /\ Len(call.log[1].after) = 1
    /\ call.log[2].after = call.log[1].after
    /\ \/ call.log[2].msg.sender = OwnUser("matrix") /\ StartsWith(call.log[2].msg.url, Mxc)
       \/ call.log[2].msg.sender # OwnUser("matrix") /\ call.log[2].msg.url # <<>>

\* the message carries a file the hook's adapter can fetch
HasPayload(kind, msg) ==
    CASE kind = "matrix" -> StartsWith(msg.url, Mxc)
      [] kind = "telegram" -> msg.message /\ msg.media # {}
      [] kind = "signal" -> msg.base64_attachments # <<>>

\* who sent the message (a Telegram update without a message has no sender)
SenderOf(kind, msg) ==
    CASE kind = "matrix" -> msg.sender
      [] kind = "telegram" -> IF msg.message THEN msg.sender ELSE "nobody"
      [] kind = "signal" -> msg.source

\* C28: in every adapter, a message sent by the adapter's own user and a
\* message without a file payload produce no event.
\* Refuted: only the Matrix hook compares the sender with its own user.
C28_NoEventForOwnOrEmpty ==
    call.fn = "hook" =>
        \A i \in 1..Len(call.log) :
            LET h == call.log[i]
            IN  (SenderOf(call.kind, h.msg) = OwnUser(call.kind) \/ ~HasPayload(call.kind, h.msg))
                    => h.after = h.before

\* how far an adapter is: starting, running, draining, stopped
Rank(a) ==
    CASE pc[a] = "connect" -> 0
      [] pc[a] \in {"listen", "download", "upload"} -> 1
      [] pc[a] = "disconnect" -> 2
      [] pc[a] = "done" -> 3

\* the same, in the next state
RankNext(a) ==
    CASE pc'[a] = "connect" -> 0
      [] pc'[a] \in {"listen", "download", "upload"} -> 1
      [] pc'[a] = "disconnect" -> 2
      [] pc'[a] = "done" -> 3

\* C29: an adapter only moves forward through starting, running, draining,
\* stopped; it is running (listen() invoked, messages consumed) only if its
\* connect() returned; an adapter whose connect() raised or was cancelled is
\* draining or stopped; and once disconnect() has been invoked no message is
\* taken from the buffer and no fetch is issued.
C29_ForwardOnly ==
    /\ [](\A a \in Adapters :
            /\ Rank(a) = 0 <=> history.connect[a] = "pending"
            /\ Rank(a) = 1 => history.connect[a] = "ok"
            /\ history.connect[a] \in {"auth", "error", "cancelled"} =>
                   Rank(a) >= 2 /\ calls[a] = <<>>
            /\ Rank(a) >= 2 <=> history.disconnects[a] > 0)
    /\ [][\A a \in Adapters :
            /\ RankNext(a) >= Rank(a)
            /\ Rank(a) >= 2 =>
                   /\ calls'[a] = calls[a]
                   /\ cur'[a] = None
                   /\ Len(file_queue'[a]) >= Len(file_queue[a])]_vars

\* one adapter went through all four states with a message processed while the
\* other, whose connect() failed, stopped without listening
C29_Witness ==
    \E a, b \in Adapters :
        /\ pc[a] = "done" /\ history.connect[a] = "ok" /\ results[a] # <<>>
        /\ pc[b] = "done" /\ history.connect[b] = "error" /\ file_queue[b] # <<>>

\* C30: every fetch is issued on the adapter whose hook made the message, every
\* message in a buffer or in process is with the adapter that made it, and a
\* buffer changes only by its own adapter's hook appending to it or its own
\* adapter's loop taking its oldest message into a fetch.
C30_OwnBufferOnly ==
    /\ [](\A a \in Adapters :
            /\ \A i \in 1..Len(calls[a]) :
                   /\ calls[a][i].file_message.id[1] = a
                   /\ calls[a][i].file_message.platform = platform_name(a)
            /\ \A i \in 1..Len(file_queue[a]) : file_queue[a][i].id[1] = a
            /\ cur[a] # None => cur[a][1].file_message.id[1] = a)
    /\ [][\A a \in Adapters :
            file_queue'[a] # file_queue[a] =>
                \/ /\ Len(file_queue'[a]) = Len(file_queue[a]) + 1
                   /\ Take(file_queue'[a], Len(file_queue[a])) = file_queue[a]
                   /\ made'[a] = made[a] + 1
                   /\ \A b \in Adapters \ {a} : made'[b] = made[b] /\ calls'[b] = calls[b]
                \/ /\ file_queue'[a] = Tail(file_queue[a])
                   /\ calls'[a] = Append(calls[a], calls'[a][Len(calls'[a])])
                   /\ calls'[a][Len(calls'[a])].op = "download_file"
                   /\ calls'[a][Len(calls'[a])].file_message = Head(file_queue[a])
                   /\ \A b \in Adapters \ {a} : calls'[b] = calls[b]]_vars

\* both adapters have fetched a message of their own
C30_Witness ==
    \A a \in Adapters :
        \E i \in 1..Len(calls[a]) :
            calls[a][i].op = "download_file" /\ calls[a][i].file_message.id[1] = a

\* C31: when an adapter's own failure in connect() (an authentication error
\* or an unexpected error) set the stop signal, its disconnect() ends by
\* returning: the cancellation of the tasks does not end it.
\* Refuted: main() wakes while disconnect() waits on its backend and cancels
\* every task; the CancelledError is raised inside disconnect().
C31_OwnDisconnectCompletes ==
    [][\A a \in Adapters :
          (/\ history.connect[a] \in {"auth", "error"}
           /\ pc[a] = "disconnect"
           /\ pc'[a] = "done") => ~cancelReq[a]]_vars

\* upload_file called ensure_directory (its parent_dir was not ".")
EnsureCalled ==
    call.fn = "upload_file" /\ PathStr(Parent(PosixPath(call.remote_path))) # <<".">>

\* the directory k levels below the top of the target directory's path
DirAt(k) ==
    LET target == TargetParentOf(call.base_path, call.remote_path)
    IN  PathStr([abs |-> target.abs, parts |-> Take(target.parts, IF k < 0 THEN 0 ELSE k)])

Mkdirs == SelectSeq(call.ops, LAMBDA c : c.op = "mkdir")

\* the checks answered "does not exist"
MissingFound == SelectSeq(Checks, LAMBDA c : c.outcome = "False")

\* C32: ensure_directory checks the target directory, then its parent, and so
\* on upward, and stops at the first one that exists; only then it issues
\* mkdir, once for each directory found missing, topmost first; none when the
\* target exists; a mkdir that fails with "already exists" is passed over and
\* any other mkdir error ends the call with that error.
C32_EnsureDirectory ==
    EnsureCalled =>
        LET depth == Len(TargetParentOf(call.base_path, call.remote_path).parts)
            found == Len(MissingFound)
        IN  /\ \A i \in 1..Len(Checks) :
                   /\ Checks[i].path = DirAt(depth - i + 1)
                   /\ Checks[i].outcome = "True" =>
                          /\ i = Len(Checks)
                          /\ call.pc # "check"
                          /\ KeepParts(SplitOn(Checks[i].path, "/")) \in call.initial
                   /\ Checks[i].outcome = "False" =>
                          KeepParts(SplitOn(Checks[i].path, "/")) \notin call.initial
            /\ \A i, j \in 1..Len(call.ops) :
                   (call.ops[i].op = "check" /\ call.ops[j].op = "mkdir") => i < j
            /\ Len(Mkdirs) <= found
            /\ \A j \in 1..Len(Mkdirs) : Mkdirs[j].path = MissingFound[found - j + 1].path
            /\ (call.pc \in {"upload", "returned"} \/ UploadIssued) => Len(Mkdirs) = found
            /\ \A j \in 1..Len(Mkdirs) :
                   Mkdirs[j].outcome = "error" <=>
                       (j = Len(Mkdirs) /\ call.pc = "raised" /\ ~UploadIssued)

\* two missing directories were created, the first of them reported as
\* existing already, and the upload went on
C32_Witness ==
    /\ EnsureCalled
    /\ call.pc = "returned"
    /\ Len(Mkdirs) = 2
    /\ Mkdirs[1].outcome = "already exists"
    /\ Len(Checks) = 3
    /\ Checks[3].outcome = "True"

\* C33: the upward walk of ensure_directory ends: it never comes back to a
\* directory it has checked already (a second check of the same directory
\* gets the same answer and the walk repeats from there without end).
\* Refuted: under a relative base_path the walk reaches ".", whose parent is
\* "." again, and never the "/" that ends the loop; when the server answers
\* that "." does not exist the loop checks "." for ever.
C33_WalkTerminates ==
    EnsureCalled =>
        \A i, j \in 1..Len(Checks) : i # j => Checks[i].path # Checks[j].path

\* C39: on the same arguments DryRunUploader.upload_file returns the path
\* NextcloudUploader.upload_file returns when it succeeds, base_path joined
\* with the relative path; the dry run calls nothing on the server (no mkdir,
\* no upload); and its check_connection returns True.
C39_DryRunSamePath ==
    /\ [](call.fn = "upload_file" =>
            /\ (call.dry # <<>> /\ call.returned # <<>>) => call.dry = call.returned
            /\ call.dry # <<>> =>
                   call.dry = <<call.base_path \o <<"/">> \o call.remote_path>>
            /\ call.dry_check # <<>> => call.dry_check = <<TRUE>>)
    /\ [][(call.fn = "upload_file"
             /\ (call'.dry # call.dry \/ call'.dry_check # call.dry_check))
            => (call'.ops = call.ops /\ call'.dirs = call.dirs)]_vars

\* both uploaders have returned, the real one after creating directories
C39_Witness ==
    /\ call.fn = "upload_file"
    /\ call.dry # <<>>
    /\ call.dry_check # <<>>
    /\ call.pc = "returned"
    /\ Mkdirs # <<>>

\* C34: the path upload_file uploads to and returns, base_path joined with
\* what resolve_path returned, has base_path's components as a prefix of its
\* own and no ".." component.
\* Refuted: {ext} is the unsanitized text after the filename's last dot and may
\* begin with "/"; a room named "{ext}" brings it to the front of the resolved
\* path, which is then absolute, and joining an absolute path drops base_path.
C34_UnderBasePath ==
    (call.fn = "resolve_path" /\ call.returned # <<>>) =>
        LET full_remote_path == PosixPath(upload_file(call.returned[1]))
        IN  /\ IsPrefix(PosixPath(base_path).parts, full_remote_path.parts)
            /\ \A i \in 1..Len(full_remote_path.parts) :
                   full_remote_path.parts[i] # <<".", ".">>

\* the local file of the message adapter a is processing is on disk
LocalFileExists(a) == cur[a] # None /\ RealPath(cur[a][1].local_path) \in fs

\* C35: while upload_file runs, the file download_file wrote is on disk; a
\* step that removes the file of the message in process is the return or the
\* exception of upload_file, or the end of a download_file after which
\* upload_file is not called.
C35_TempFileUntilUploadEnds ==
    /\ [](\A a \in Adapters : pc[a] = "upload" => LocalFileExists(a))
    /\ [][\A a \in Adapters :
            (LocalFileExists(a) /\ RealPath(cur[a][1].local_path) \notin fs')
                => /\ pc'[a] # "upload"
                   /\ \/ pc[a] = "upload"
                      \/ pc[a] = "download"]_vars

\* an upload is running on a file inside the temporary directory
C35_Witness ==
    \E a \in Adapters :
        /\ pc[a] = "upload"
        /\ LocalFileExists(a)
        /\ IsPrefix(cur[a][1].temp_dir.parts, RealPath(cur[a][1].local_path))

\* C36: every message put into the buffer is either still in it or has been
\* yielded, in the order of the puts: the messages put before connect()
\* returned are yielded first, before any put later.
C36_EarlyEventsKept ==
    call.fn = "listen" =>
        LET all == call.yielded \o call.queue
        IN  /\ Len(all) = call.put
            /\ \A i \in 1..Len(all) : all[i].n = i
            /\ \A i, j \in 1..Len(call.yielded) :
                   (call.yielded[i].early /\ ~call.yielded[j].early) => i < j
            /\ \A i \in 1..Len(call.queue) :
                   (call.queue[i].early /\ call.pc \in {"listen", "process"}) =>
                       \A j \in 1..Len(call.yielded) : call.yielded[j].early

\* two messages put during connect() were yielded before the one put later
C36_Witness ==
    /\ call.fn = "listen"
    /\ Len(call.yielded) = 3
    /\ call.yielded[1].early
    /\ call.yielded[2].early
    /\ ~call.yielded[3].early

\* what a hook call appended to the buffer
Appended(h) == SubSeq(h.after, Len(h.before) + 1, Len(h.after))

\* C37: the Signal collector keeps what was in the buffer and appends one
\* event per attachment of the message, in the order of the attachments, all
\* with one room, one sender and one timestamp; the event of attachment i has
\* the i-th filename supplied or, when there is none, the name
\* attachment_<timestamp>_<i> (i counted from 0); a message without
\* attachments appends nothing; an attachment that does not decode is
\* appended with size 0.
C37_SignalOnePerAttachment ==
    (call.fn = "hook" /\ call.kind = "signal") =>
        \A n \in 1..Len(call.log) :
            LET h == call.log[n]
                attachments == h.msg.base64_attachments
                filenames == h.msg.attachments_local_filenames
                new == Appended(h)
            IN  /\ Len(h.after) >= Len(h.before)
                /\ Take(h.after, Len(h.before)) = h.before
                /\ Len(new) = Len(attachments)
                /\ \A i \in 1..Len(new) :
                       /\ new[i].download_url = attachments[i]
                       /\ new[i].room_id = new[1].room_id
                       /\ new[i].sender_id = h.msg.source
                       /\ new[i].timestamp = new[1].timestamp
                       /\ new[i].filename =
                              IF i <= Len(filenames) THEN filenames[i]
                              ELSE <<"a", "t", "t", "a", "c", "h", "m", "e", "n", "t", "_">> \o ToStr(h.msg.timestamp) \o <<"_">> \o ToStr(i - 1)
                       /\ attachments[i] = <<"Y">> => new[i].size = 0

\* after an earlier message, one with two attachments and one filename gave
\* two events, the second with a synthesized name and size 0
C37_Witness ==
    /\ call.fn = "hook" /\ call.kind = "signal"
    /\ Len(call.log) = 2
    /\ call.log[2].before # <<>>
    /\ Len(Appended(call.log[2])) = 2
    /\ Appended(call.log[2])[1].filename = <<"p", ".", "j", "p", "g">>
    /\ Appended(call.log[2])[2].filename = <<"a", "t", "t", "a", "c", "h", "m", "e", "n", "t", "_", "1", "7", "_", "1">>
    /\ Appended(call.log[2])[2].size = 0

\* C38: the Telegram hook appends at most one event per update: none when the
\* update has no message or the message has no file, otherwise one whose
\* download_url is the file_id of the first kind the message has in the order
\* document, photo, video, audio, voice, video_note - of a photo the last,
\* largest size - and whose size is 0 when the file_size is not known.
C38_TelegramFirstKind ==
    (call.fn = "hook" /\ call.kind = "telegram") =>
        \A n \in 1..Len(call.log) :
            LET h == call.log[n]
                new == Appended(h)
                order == <<"document", "photo", "video", "audio", "voice", "video_note">>
                present == {i \in 1..6 : order[i] \in h.msg.media}
            IN  /\ Len(h.after) >= Len(h.before)
                /\ Take(h.after, Len(h.before)) = h.before
                /\ IF ~h.msg.message \/ present = {}
                   THEN new = <<>>
                   ELSE LET first == order[CHOOSE i \in present : \A j \in present : i <= j]
                        IN  /\ Len(new) = 1
                            /\ new[1].download_url =
                                   (IF first = "photo" THEN "photo_large" ELSE first)
                            /\ ~h.msg.size_known => new[1].size = 0

\* a message with a photo and a video gave one event for the large photo, and
\* a document of unknown size one event of size 0
C38_Witness ==
    /\ call.fn = "hook" /\ call.kind = "telegram"
    /\ Len(call.log) = 2
    /\ call.log[1].msg.media = {"photo", "video"}
    /\ Appended(call.log[1])[1].download_url = "photo_large"
    /\ call.log[2].msg.media = {"document"}
    /\ ~call.log[2].msg.size_known
    /\ Len(call.log[2].after) = 2
    /\ call.log[2].after[2].size = 0

=============================================================================
